---- MODULE Spec2Model ----
(***************************************************************************)
(* Verification model of the financial core of the Conta Azul dashboard.   *)
(*                                                                         *)
(* Part 1: bank reconciliation                                             *)
(*   dashboard/services/reconciliation_service.py  (reconcile)             *)
(*   dashboard/models/inter_models.py              (ReconciliationResult)  *)
(* Part 2: cash projection                                                 *)
(*   dashboard/services/cashflow_service.py  (build_cash_projection)       *)
(* Part 3: aging                                                           *)
(*   dashboard/services/cashflow_service.py  (_classify_aging_bucket,      *)
(*                                            compute_aging)               *)
(* Part 4: metrics                                                         *)
(*   dashboard/services/metrics_service.py   (calculate_burn_rate,         *)
(*                                  calculate_runway, calculate_delinquency) *)
(*                                                                         *)
(* Each function has its own specification; the variables of the other     *)
(* functions stay idle in it.                                              *)
(*                                                                         *)
(* Amounts are integers (centavos), dates are day numbers.  A dict field   *)
(* of an ERP record holds a number >= 0, or Absent (the key is missing),   *)
(* or Null (the key is present with None / an empty value), or, for a date *)
(* field, Unparsable (a non-empty string date.fromisoformat rejects).      *)
(* Floating point rounding is not modelled.                                *)
(***************************************************************************)
EXTENDS Integers, Sequences, FiniteSets, TLC

\* ------------------------------------------------------------------------
\* Bounds of the model
\* ------------------------------------------------------------------------
MaxTx == 2          \* transactions in a statement
MaxRecs == 2        \* ERP records handed to reconcile (receivables + payables)
MaxDate == 2        \* dates are the days 0..MaxDate
MaxVal == 1         \* amounts are 0..MaxVal
MaxTol == 1         \* tolerances are 0..MaxTol

\* ------------------------------------------------------------------------
\* Field encodings
\* ------------------------------------------------------------------------
Absent == -1        \* dict.get(key) finds no key
Null == -2          \* None (also the date "not resolved")
Unparsable == -3    \* a date string that date.fromisoformat rejects

Abs(x) == IF x < 0 THEN -x ELSE x

\* str(i) of a list position (Python positions start at 0)
Str(i) == <<"0", "1", "2", "3", "4", "5", "6", "7", "8", "9">>[i + 1]

\* str.upper on the status strings of the model
Upper(s) == CASE s = "paid" -> "PAID"
              [] s = "open" -> "OPEN"
              [] OTHER -> s

VARIABLES
    transactions,       \* list[InterTransaction]: [data, tipo, valor]
    receivables,        \* list[dict]
    payables,           \* list[dict]
    tolerance_days,
    value_tolerance,
    pc,                 \* position of the function being executed
    ti,                 \* position of the transaction loop (1-based)
    matched_recv_ids,
    matched_pay_ids,
    items,              \* reconcile: the items built; compute_aging: its argument
    conciliados,
    so_banco,
    valor_conciliado,
    valor_so_banco,
    so_erp,
    valor_so_erp,
    result,
    today,              \* date.today()
    \* build_cash_projection
    current_cash,
    days,
    daily_inflows,
    daily_outflows,
    balance,
    min_balance,
    min_balance_date,
    days_until_negative,
    balance_30d,
    balance_60d,
    rows,
    projection,
    \* _classify_aging_bucket
    due_date_str,
    ref_date,
    bucket,
    \* compute_aging
    filter_open,
    aging,
    \* calculate_burn_rate
    months,
    burn,
    \* calculate_runway
    cash,
    burn_rate,
    runway,
    \* calculate_delinquency
    delinquency,
    \* compute_monthly_revenue_expenses, build_cash_history
    monthly,
    history,
    \* a batch computation over records of which one may be malformed
    batch,
    \* ContaAzulClient._request / InterClient._request
    attempt,
    last_error,
    response,           \* what the last attempt met
    outcome,            \* what _request returned or raised
    sent,               \* HTTP requests sent to the API so far
    refreshes,          \* token refreshes a 401 has triggered so far
    \* ContaAzulAuth
    access_token,
    refresh_token,
    expires_at,
    token_file,         \* content of TOKEN_FILE, Absent when there is none
    clock,              \* time.time()
    token_result,       \* what get_access_token returned or raised
    contacts            \* requests sent to the token endpoint so far

reconcileVars == <<transactions, tolerance_days, value_tolerance, ti,
                   matched_recv_ids, matched_pay_ids, conciliados, so_banco,
                   valor_conciliado, valor_so_banco, so_erp, valor_so_erp, result>>

projectionVars == <<current_cash, days, daily_inflows, daily_outflows, balance,
                    min_balance, min_balance_date, days_until_negative,
                    balance_30d, balance_60d, rows, projection>>

classifierVars == <<due_date_str, ref_date, bucket>>

agingVars == <<filter_open, aging>>

burnVars == <<months, burn>>

runwayVars == <<cash, burn_rate, runway>>

requestVars == <<attempt, last_error, response, outcome, sent, refreshes>>

authVars == <<access_token, refresh_token, expires_at, token_file, clock,
              token_result, contacts>>

\* the variables of the monthly views and of the API clients
extraVars == <<monthly, history, batch, requestVars, authVars>>

\* the variables reconcile never touches
dashboardVars == <<today, projectionVars, classifierVars, agingVars, burnVars,
                   runwayVars, delinquency, extraVars>>

vars == <<receivables, payables, items, pc, reconcileVars, dashboardVars>>

inputs == <<transactions, receivables, payables, tolerance_days, value_tolerance>>

\* A function that is not being executed holds nothing
ReconcileIdle ==
    /\ transactions = <<>> /\ tolerance_days = Null /\ value_tolerance = Null
    /\ ti = Null /\ matched_recv_ids = {} /\ matched_pay_ids = {}
    /\ conciliados = Null /\ so_banco = Null /\ valor_conciliado = Null
    /\ valor_so_banco = Null /\ so_erp = Null /\ valor_so_erp = Null
    /\ result = Null

ProjectionIdle ==
    /\ current_cash = Null /\ days = Null
    /\ daily_inflows = Null /\ daily_outflows = Null
    /\ balance = Null /\ min_balance = Null /\ min_balance_date = Null
    /\ days_until_negative = Null /\ balance_30d = Null /\ balance_60d = Null
    /\ rows = <<>> /\ projection = Null

ClassifierIdle == due_date_str = Null /\ ref_date = Null /\ bucket = Null

AgingIdle == filter_open = Null /\ aging = Null

BurnIdle == months = Null /\ burn = Null

RunwayIdle == cash = Null /\ burn_rate = Null /\ runway = Null

DelinquencyIdle == delinquency = Null

RequestIdle ==
    /\ attempt = Null /\ last_error = Null /\ response = Null
    /\ outcome = Null /\ sent = Null /\ refreshes = Null

AuthIdle ==
    /\ access_token = Null /\ refresh_token = Null /\ expires_at = Null
    /\ token_file = Null /\ clock = Null /\ token_result = Null
    /\ contacts = Null

ExtraIdle ==
    /\ monthly = Null /\ history = Null /\ batch = Null
    /\ RequestIdle /\ AuthIdle

DashboardIdle ==
    /\ today = Null
    /\ ProjectionIdle /\ ClassifierIdle /\ AgingIdle /\ BurnIdle /\ RunwayIdle
    /\ DelinquencyIdle /\ ExtraIdle

\* ------------------------------------------------------------------------
\* Helpers of reconciliation_service.py
\* ------------------------------------------------------------------------

\* date.fromisoformat(dt_str[:10]) inside the try of _paid_date: the day, or
\* Null when the field is falsy or raises ValueError/TypeError
ParseField(dt_str) == IF dt_str >= 0 THEN dt_str ELSE Null

_paid_date(item) ==
    IF ParseField(item.data_pagamento) # Null THEN ParseField(item.data_pagamento)
    ELSE IF ParseField(item.data_competencia) # Null THEN ParseField(item.data_competencia)
    ELSE IF ParseField(item.data_vencimento) # Null THEN ParseField(item.data_vencimento)
    ELSE Null

_paid_amount(item) ==
    LET raw == IF item.pago # Absent THEN item.pago
               ELSE IF item.total # Absent THEN item.total
               ELSE 0
    IN  IF raw = Null THEN 0 ELSE raw

_is_paid(item) == Upper(item.status) = "PAID"

paid_receivables == SelectSeq(receivables, _is_paid)
paid_payables == SelectSeq(payables, _is_paid)

\* item.get("id", str(i)) for the candidate at 1-based position k
ItemId(candidates, k) ==
    IF candidates[k].id # <<>> THEN candidates[k].id[1] ELSE Str(k - 1)

\* ------------------------------------------------------------------------
\* reconcile: the matching loop (lines 91-150)
\* ------------------------------------------------------------------------

\* (mutant) the two pools exchanged
PoolOfSwapped(tx) == IF tx.tipo = "CREDITO" THEN "pay" ELSE "recv"

\* lines 95-101: the pool a transaction is matched against
PoolOf(tx) == IF tx.tipo = "CREDITO" THEN "recv" ELSE "pay"

Candidates(pool) == IF pool = "recv" THEN paid_receivables ELSE paid_payables

\* (mutant) the check of line 105 left out
IsConsumedNever(item_id, matched_set) == FALSE

\* line 105: if item_id in matched_set: continue
IsConsumed(item_id, matched_set) == item_id \in matched_set

\* (mutant) the comparison of line 112 turned around
ValueMismatchInverted(erp_amount, valor, vtol) == Abs(erp_amount - valor) < vtol

\* line 112: if abs(erp_amount - tx.valor) > value_tolerance: continue
ValueMismatch(erp_amount, valor, vtol) == Abs(erp_amount - valor) > vtol

\* lines 116-119: if erp_date: diff = abs((tx.data - erp_date).days);
\*                if diff > tolerance_days: continue
DateMismatch(erp_date, data, dtol) ==
    erp_date # Null /\ Abs(data - erp_date) > dtol

\* lines 103-139: the scan for one transaction, from position k on; the
\* position of the candidate matched (the loop breaks there), 0 when the loop
\* runs to its end
RECURSIVE ScanCandidates(_, _, _, _, _, _)
ScanCandidates(tx, candidates, matched_set, dtol, vtol, k) ==
    IF k > Len(candidates) THEN 0
    ELSE IF IsConsumed(ItemId(candidates, k), matched_set)
         THEN ScanCandidates(tx, candidates, matched_set, dtol, vtol, k + 1)
    ELSE IF ValueMismatch(_paid_amount(candidates[k]), tx.valor, vtol)
         THEN ScanCandidates(tx, candidates, matched_set, dtol, vtol, k + 1)
    ELSE IF DateMismatch(_paid_date(candidates[k]), tx.data, dtol)
         THEN ScanCandidates(tx, candidates, matched_set, dtol, vtol, k + 1)
    ELSE k

\* lines 125-136: the CONCILIADO item.  tx, pool and rec are not fields of
\* ReconciliationItem: they record which transaction (position in
\* transactions) and which record (position in its paid list) the item was
\* built from.
MatchedItem(tx, t, pool, candidates, k) ==
    [status |-> "CONCILIADO",
     banco_data |-> tx.data, banco_valor |-> tx.valor, banco_tipo |-> tx.tipo,
     erp_valor |-> _paid_amount(candidates[k]),
     erp_data_vencimento |-> _paid_date(candidates[k]),
     erp_status |-> "PAID",
     erp_id |-> ItemId(candidates, k),
     tx |-> t, pool |-> pool, rec |-> k]

\* lines 142-148: the SO_BANCO item (the ERP side keeps the dataclass defaults)
BankOnlyItem(tx, t) ==
    [status |-> "SO_BANCO",
     banco_data |-> tx.data, banco_valor |-> tx.valor, banco_tipo |-> tx.tipo,
     erp_valor |-> 0, erp_data_vencimento |-> Null, erp_status |-> "",
     erp_id |-> "",
     tx |-> t, pool |-> "", rec |-> 0]

\* (mutant) the ERP amount added instead of the bank amount
AddConciliadoErp(valor, tx, erp_amount) == valor + erp_amount

\* line 138: valor_conciliado += tx.valor
AddConciliado(valor, tx, erp_amount) == valor + tx.valor

\* (mutant) the SO_BANCO branch taken for every transaction
NoMatchFoundAlways(k) == TRUE

\* line 141: if not match_found
NoMatchFound(k) == k = 0

\* One iteration of `for tx in transactions` (lines 91-150)
MatchTransaction ==
    /\ pc = "match"
    /\ LET tx == transactions[ti]
           pool == PoolOf(tx)
           candidates == Candidates(pool)
           matched_set == IF pool = "recv" THEN matched_recv_ids ELSE matched_pay_ids
           k == ScanCandidates(tx, candidates, matched_set,
                               tolerance_days, value_tolerance, 1)
           added == IF k = 0 THEN {} ELSE {ItemId(candidates, k)}
       IN  /\ matched_recv_ids' =
                 IF pool = "recv" THEN matched_recv_ids \cup added ELSE matched_recv_ids
           /\ matched_pay_ids' =
                 IF pool = "pay" THEN matched_pay_ids \cup added ELSE matched_pay_ids
           /\ items' = (IF k # 0
                        THEN Append(items, MatchedItem(tx, ti, pool, candidates, k))
                        ELSE items)
                       \o (IF NoMatchFound(k) THEN <<BankOnlyItem(tx, ti)>> ELSE <<>>)
           /\ conciliados' = IF k # 0 THEN conciliados + 1 ELSE conciliados
           /\ valor_conciliado' =
                 IF k # 0
                 THEN AddConciliado(valor_conciliado, tx, _paid_amount(candidates[k]))
                 ELSE valor_conciliado
           /\ so_banco' = IF NoMatchFound(k) THEN so_banco + 1 ELSE so_banco
           /\ valor_so_banco' =
                 IF NoMatchFound(k) THEN valor_so_banco + tx.valor ELSE valor_so_banco
    /\ ti' = ti + 1
    /\ pc' = IF ti + 1 > Len(transactions) THEN "so_erp" ELSE "match"
    /\ UNCHANGED <<inputs, so_erp, valor_so_erp, result, dashboardVars>>

\* ------------------------------------------------------------------------
\* reconcile: ERP records without a bank match (lines 152-184)
\* ------------------------------------------------------------------------
RECURSIVE MinDate(_, _)
MinDate(txs, k) ==
    IF k = Len(txs) THEN txs[k].data
    ELSE LET m == MinDate(txs, k + 1) IN IF txs[k].data < m THEN txs[k].data ELSE m

RECURSIVE MaxDateOf(_, _)
MaxDateOf(txs, k) ==
    IF k = Len(txs) THEN txs[k].data
    ELSE LET m == MaxDateOf(txs, k + 1) IN IF txs[k].data > m THEN txs[k].data ELSE m

\* lines 169-173: the record lies outside the period of the statement
OutsideStatement(erp_date) ==
    /\ transactions # <<>>
    /\ erp_date # Null
    /\ \/ erp_date < MinDate(transactions, 1) - tolerance_days
       \/ erp_date > MaxDateOf(transactions, 1) + tolerance_days

\* lines 175-182: the SO_ERP item (the bank side keeps the dataclass defaults)
ErpOnlyItem(pool, candidates, k) ==
    [status |-> "SO_ERP",
     banco_data |-> Null, banco_valor |-> 0, banco_tipo |-> "",
     erp_valor |-> _paid_amount(candidates[k]),
     erp_data_vencimento |-> _paid_date(candidates[k]),
     erp_status |-> "PAID",
     erp_id |-> ItemId(candidates, k),
     tx |-> 0, pool |-> pool, rec |-> k]

\* lines 160-184 for one pool, from position k on: the items appended
RECURSIVE ErpOnlyItems(_, _, _, _)
ErpOnlyItems(pool, candidates, matched_set, k) ==
    IF k > Len(candidates) THEN <<>>
    ELSE IF IsConsumed(ItemId(candidates, k), matched_set)
         THEN ErpOnlyItems(pool, candidates, matched_set, k + 1)
    ELSE IF OutsideStatement(_paid_date(candidates[k]))
         THEN ErpOnlyItems(pool, candidates, matched_set, k + 1)
    ELSE <<ErpOnlyItem(pool, candidates, k)>>
         \o ErpOnlyItems(pool, candidates, matched_set, k + 1)

RECURSIVE SumErpValor(_)
SumErpValor(its) ==
    IF its = <<>> THEN 0 ELSE Head(its).erp_valor + SumErpValor(Tail(its))

\* The loop over the two pools (lines 153-184)
EmitErpOnly ==
    /\ pc = "so_erp"
    /\ LET new == ErpOnlyItems("recv", paid_receivables, matched_recv_ids, 1)
                  \o ErpOnlyItems("pay", paid_payables, matched_pay_ids, 1)
       IN  /\ items' = items \o new
           /\ so_erp' = Len(new)
           /\ valor_so_erp' = SumErpValor(new)
    /\ pc' = "return"
    /\ UNCHANGED <<inputs, ti, matched_recv_ids, matched_pay_ids, conciliados,
                   so_banco, valor_conciliado, valor_so_banco, result,
                   dashboardVars>>

\* ------------------------------------------------------------------------
\* reconcile: the result (lines 186-196) and its derived rate
\* ------------------------------------------------------------------------
NoResult == [total_transacoes_banco |-> Absent]

ReconciliationResult ==
    [items |-> items,
     total_transacoes_banco |-> Len(transactions),
     total_itens_erp |-> Len(paid_receivables) + Len(paid_payables),
     conciliados |-> conciliados,
     so_banco |-> so_banco,
     so_erp |-> so_erp,
     valor_conciliado |-> valor_conciliado,
     valor_so_banco |-> valor_so_banco,
     valor_so_erp |-> valor_so_erp]

Return ==
    /\ pc = "return"
    /\ result' = ReconciliationResult
    /\ pc' = "done"
    /\ UNCHANGED <<inputs, ti, matched_recv_ids, matched_pay_ids, items,
                   conciliados, so_banco, valor_conciliado, valor_so_banco,
                   so_erp, valor_so_erp, dashboardVars>>

\* (mutant) the test of line 73 left out
ZeroBankTransactionsUnchecked(r) == FALSE

\* inter_models.py line 73: if self.total_transacoes_banco == 0
ZeroBankTransactions(r) == r.total_transacoes_banco = 0

\* ReconciliationResult.taxa_conciliacao (inter_models.py 70-75), as the
\* fraction num/den of the float the code returns; den = 0 stands for the
\* ZeroDivisionError of the division
taxa_conciliacao(r) ==
    IF ZeroBankTransactions(r)
    THEN [num |-> 100, den |-> 1]
    ELSE [num |-> r.conciliados * 100, den |-> r.total_transacoes_banco]

\* ------------------------------------------------------------------------
\* Inputs
\* ------------------------------------------------------------------------
Dates == 0..MaxDate
Vals == 0..MaxVal
Tols == 0..MaxTol

InterTransactions == [data : Dates, tipo : {"CREDITO", "DEBITO"}, valor : Vals]

SeqsUpTo(S, n) == UNION {[1..m -> S] : m \in 0..n}

\* ERP records as the API returns them.  A record is a dict; the fields
\* reconcile reads are status, id, pago, total and the three dates.
Obligation(status, id, pago, total, dp, dc, dv) ==
    [status |-> status, id |-> id, pago |-> pago, total |-> total,
     data_pagamento |-> dp, data_competencia |-> dc, data_vencimento |-> dv]

Obligations ==
    \* paid, no id field: every paid amount, every payment date or none
    {Obligation("PAID", <<>>, v, Absent, d, Absent, Absent) :
        v \in Vals, d \in Dates \cup {Absent}}
    \* paid, with an id field
    \cup {Obligation("PAID", <<i>>, MaxVal, Absent, Absent, Absent, Absent) :
        i \in {"1", "a"}}
    \* not paid
    \cup {Obligation("OPEN", <<>>, v, Absent, Absent, Absent, Absent) : v \in Vals}
    \* lower-case status, amount under total, date under data_vencimento
    \cup {Obligation("paid", <<>>, Absent, MaxVal, Unparsable, Null, MaxDate)}

\* The identifiers the ERP assigns are unique within a list
DistinctIds(list) ==
    \A i, j \in 1..Len(list) :
        (i # j /\ list[i].id # <<>>) => list[i].id # list[j].id

Init ==
    /\ transactions \in SeqsUpTo(InterTransactions, MaxTx)
    /\ \E n \in 0..MaxRecs :
          /\ receivables \in SeqsUpTo(Obligations, n)
          /\ payables \in SeqsUpTo(Obligations, MaxRecs - n)
    /\ Len(receivables) + Len(payables) <= MaxRecs
    /\ DistinctIds(receivables)
    /\ DistinctIds(payables)
    /\ tolerance_days \in Tols
    /\ value_tolerance \in Tols
    /\ pc = IF transactions = <<>> THEN "so_erp" ELSE "match"
    /\ ti = 1
    /\ matched_recv_ids = {}
    /\ matched_pay_ids = {}
    /\ items = <<>>
    /\ conciliados = 0
    /\ so_banco = 0
    /\ valor_conciliado = 0
    /\ valor_so_banco = 0
    /\ so_erp = 0
    /\ valor_so_erp = 0
    /\ result = NoResult
    /\ DashboardIdle

Next == MatchTransaction \/ EmitErpOnly \/ Return

Spec == Init /\ [][Next]_vars

\* ------------------------------------------------------------------------
\* reconcile run again with other tolerances: the number of CONCILIADO items
\* the loop of lines 91-139 yields from transaction k on, given the
\* identifiers consumed so far
\* ------------------------------------------------------------------------
RECURSIVE CountMatched(_, _, _, _, _)
CountMatched(k, mrecv, mpay, dtol, vtol) ==
    IF k > Len(transactions) THEN 0
    ELSE LET tx == transactions[k]
             pool == PoolOf(tx)
             candidates == Candidates(pool)
             j == ScanCandidates(tx, candidates,
                                 IF pool = "recv" THEN mrecv ELSE mpay,
                                 dtol, vtol, 1)
         IN  IF j = 0
             THEN CountMatched(k + 1, mrecv, mpay, dtol, vtol)
             ELSE 1 + CountMatched(k + 1,
                        IF pool = "recv" THEN mrecv \cup {ItemId(candidates, j)} ELSE mrecv,
                        IF pool = "pay" THEN mpay \cup {ItemId(candidates, j)} ELSE mpay,
                        dtol, vtol)

ConciliadosWith(dtol, vtol) == CountMatched(1, {}, {}, dtol, vtol)

\* ========================================================================
\* Properties of reconcile
\* ========================================================================
ItemsWith(st) == {i \in 1..Len(items) : items[i].status = st}

MatchedSetOf(pool) == IF pool = "recv" THEN matched_recv_ids ELSE matched_pay_ids

Pools == {"recv", "pay"}

\* the records of a pool some CONCILIADO item was built from
MatchedRecs(pool) ==
    {items[i].rec : i \in {j \in ItemsWith("CONCILIADO") : items[j].pool = pool}}

\* the match conditions of section 4.4 step 3, on a transaction and a record
Satisfies(tx, rec, dtol, vtol) ==
    /\ Abs(_paid_amount(rec) - tx.valor) <= vtol
    /\ _paid_date(rec) # Null => Abs(tx.data - _paid_date(rec)) <= dtol

Finished == pc = "done"

\* C1: no bank transaction and no paid record is consumed by more than one
\* CONCILIADO item: every transaction processed so far has exactly one
\* bank-side item, two CONCILIADO items never rest on the same record of the
\* same pool nor carry the same identifier, and the transactions met do not
\* outnumber the items.
C1_ConsumedAtMostOnce ==
    /\ \A t \in 1..Len(transactions) :
          Cardinality({i \in 1..Len(items) :
                          items[i].tx = t /\ items[i].status \in {"CONCILIADO", "SO_BANCO"}})
              = (IF pc = "match" /\ t >= ti THEN 0 ELSE 1)
    /\ \A i, j \in ItemsWith("CONCILIADO") :
          (i # j /\ items[i].pool = items[j].pool)
              => /\ items[i].rec # items[j].rec
                 /\ items[i].erp_id # items[j].erp_id
                 /\ items[i].tx # items[j].tx

\* two transactions compete for one record: the first takes it, the second
\* would satisfy the conditions too and is left SO_BANCO
C1_Witness ==
    /\ Finished
    /\ Len(transactions) = 2
    /\ transactions[1].tipo = transactions[2].tipo
    /\ Len(Candidates(PoolOf(transactions[1]))) = 1
    /\ Satisfies(transactions[2], Candidates(PoolOf(transactions[1]))[1],
                 tolerance_days, value_tolerance)
    /\ items[1].status = "CONCILIADO"
    /\ items[2].status = "SO_BANCO"

\* C3: conciliados + so_banco = len(transactions) once the loop over the
\* transactions has ended (and equals the number of transactions processed
\* while it runs); every transaction is exactly one of the two.
C3_BankSidePartition ==
    /\ conciliados + so_banco = (IF pc = "match" THEN ti - 1 ELSE Len(transactions))
    /\ Finished =>
          /\ result.conciliados + result.so_banco = Len(transactions)
          /\ result.total_transacoes_banco = Len(transactions)
          /\ \A t \in 1..Len(transactions) :
                items[t].tx = t /\ items[t].status \in {"CONCILIADO", "SO_BANCO"}

C3_Witness ==
    /\ Finished
    /\ result.conciliados = 1
    /\ result.so_banco = 1
    /\ Len(transactions) = 2

\* no two transactions of the statement have the same tipo
OneTransactionPerTipo ==
    \A i, j \in 1..Len(transactions) :
        i # j => transactions[i].tipo # transactions[j].tipo

\* C2 (as claimed): raising value_tolerance or tolerance_days, the other held
\* fixed, never lowers the number of CONCILIADO items.
C2_ToleranceMonotonic ==
    Finished =>
        /\ result.conciliados <= ConciliadosWith(tolerance_days + 1, value_tolerance)
        /\ result.conciliados <= ConciliadosWith(tolerance_days, value_tolerance + 1)

\* C2 (amended): the same, for statements in which no two transactions have
\* the same tipo, so that no two transactions scan the same pool.
C2_MonotonicWithoutCompetition ==
    Finished =>
        /\ result.conciliados = ConciliadosWith(tolerance_days, value_tolerance)
        /\ OneTransactionPerTipo =>
              /\ result.conciliados <= ConciliadosWith(tolerance_days + 1, value_tolerance)
              /\ result.conciliados <= ConciliadosWith(tolerance_days, value_tolerance + 1)

\* a credit and a debit, and a wider tolerance of either kind adds a match
C2_Witness ==
    /\ Finished
    /\ Len(transactions) = 2
    /\ OneTransactionPerTipo
    /\ result.conciliados = 0
    /\ ConciliadosWith(tolerance_days + 1, value_tolerance) = 1
    /\ ConciliadosWith(tolerance_days, value_tolerance + 1) = 1

\* the first eligible record of a transaction's pool: not built into a
\* CONCILIADO item of an earlier transaction, and satisfying the conditions
Eligible(t) ==
    LET tx == transactions[t]
        candidates == Candidates(PoolOf(tx))
        before == {items[i].rec : i \in {j \in ItemsWith("CONCILIADO") :
                                   items[j].pool = PoolOf(tx) /\ items[j].tx < t}}
    IN  {k \in 1..Len(candidates) :
            k \notin before
            /\ Satisfies(tx, candidates[k], tolerance_days, value_tolerance)}

SetMin(S) == CHOOSE x \in S : \A y \in S : x <= y

\* C4: greedy first match wins.  The item of transaction t is the t-th item;
\* it is CONCILIADO with the first record of the pool, in list order, that no
\* earlier transaction consumed and that satisfies the value and date
\* conditions, and SO_BANCO exactly when the pool holds no such record.
C4_GreedyFirstMatch ==
    \A t \in 1..Len(items) :
        items[t].status \in {"CONCILIADO", "SO_BANCO"} =>
            /\ items[t].tx = t
            /\ (items[t].status = "SO_BANCO") = (Eligible(t) = {})
            /\ items[t].status = "CONCILIADO" =>
                  /\ items[t].pool = PoolOf(transactions[t])
                  /\ Eligible(t) # {}
                  /\ items[t].rec = SetMin(Eligible(t))

\* C5: every CONCILIADO item pairs a CREDITO with a paid receivable or a
\* DEBITO with a paid payable, its amounts differ by at most value_tolerance,
\* and its dates by at most tolerance_days when the record has a resolvable
\* date (a record without one is matched on the amounts alone).
C5_MatchedItemsSatisfyConditions ==
    \A i \in ItemsWith("CONCILIADO") :
        LET it == items[i]
            tx == transactions[it.tx]
        IN  /\ \/ tx.tipo = "CREDITO" /\ it.pool = "recv"
               \/ tx.tipo = "DEBITO" /\ it.pool = "pay"
            /\ it.rec \in 1..Len(Candidates(it.pool))
            /\ LET rec == Candidates(it.pool)[it.rec]
               IN  /\ Upper(rec.status) = "PAID"
                   /\ it.erp_valor = _paid_amount(rec)
                   /\ it.erp_data_vencimento = _paid_date(rec)
            /\ it.banco_valor = tx.valor /\ it.banco_data = tx.data
            /\ Abs(it.erp_valor - it.banco_valor) <= value_tolerance
            /\ it.erp_data_vencimento # Null =>
                  Abs(it.banco_data - it.erp_data_vencimento) <= tolerance_days

\* a credit matched to a receivable dated one day off, and a debit matched on
\* the amounts alone to a payable without a resolvable date
C5_Witness ==
    /\ Finished
    /\ result.conciliados = 2
    /\ \E i, j \in ItemsWith("CONCILIADO") :
          /\ items[i].banco_tipo = "CREDITO"
          /\ items[i].erp_data_vencimento # Null
          /\ Abs(items[i].banco_data - items[i].erp_data_vencimento) = 1
          /\ items[j].banco_tipo = "DEBITO"
          /\ items[j].erp_data_vencimento = Null
          /\ Abs(items[j].erp_valor - items[j].banco_valor) = 1

\* C6: at the end every paid record no CONCILIADO item was built from is
\* emitted as exactly one SO_ERP item, unless the statement is not empty and
\* the record's date is resolvable and outside
\* [min(tx.data) - tolerance_days, max(tx.data) + tolerance_days]; a record
\* that was matched is not emitted.
ErpOnlyCount(pool, k) ==
    Cardinality({i \in ItemsWith("SO_ERP") : items[i].pool = pool /\ items[i].rec = k})

C6_UnmatchedEmittedOnce ==
    Finished =>
        \A pool \in Pools : \A k \in 1..Len(Candidates(pool)) :
            ErpOnlyCount(pool, k) =
                (IF k \in MatchedRecs(pool) THEN 0
                 ELSE IF /\ transactions # <<>>
                         /\ _paid_date(Candidates(pool)[k]) # Null
                         /\ \E lo, hi \in 1..Len(transactions) :
                               /\ \A t \in 1..Len(transactions) :
                                     /\ transactions[lo].data <= transactions[t].data
                                     /\ transactions[t].data <= transactions[hi].data
                               /\ \/ _paid_date(Candidates(pool)[k])
                                        < transactions[lo].data - tolerance_days
                                  \/ _paid_date(Candidates(pool)[k])
                                        > transactions[hi].data + tolerance_days
                      THEN 0
                      ELSE 1)

\* C7: within a pool distinct records have distinct identifiers, so that an
\* identifier is in the consumed set only if a CONCILIADO item was built from
\* the record that carries it.
C7_DistinctIdentifiers ==
    \A pool \in Pools :
        /\ items # <<>> =>
              \A i, j \in 1..Len(Candidates(pool)) :
                  i # j => ItemId(Candidates(pool), i) # ItemId(Candidates(pool), j)
        /\ \A k \in 1..Len(Candidates(pool)) :
              IsConsumed(ItemId(Candidates(pool), k), MatchedSetOf(pool))
                  => k \in MatchedRecs(pool)

\* C8: only records with status PAID and a paid amount > 0 feed the
\* reconciliation: every CONCILIADO and SO_ERP item is built from such a
\* record, and total_itens_erp counts such records only.
FeedsReconciliation(rec) == Upper(rec.status) = "PAID" /\ _paid_amount(rec) > 0

C8_OnlyPositivePaidRecords ==
    /\ \A i \in ItemsWith("CONCILIADO") \cup ItemsWith("SO_ERP") :
          FeedsReconciliation(Candidates(items[i].pool)[items[i].rec])
    /\ Finished =>
          result.total_itens_erp =
              Len(SelectSeq(receivables, FeedsReconciliation))
              + Len(SelectSeq(payables, FeedsReconciliation))

\* C9: the aggregates of the result agree with its item list.
RECURSIVE SumOver(_, _, _)
SumOver(its, st, side) ==
    IF its = <<>> THEN 0
    ELSE (IF Head(its).status = st
          THEN (IF side = "banco" THEN Head(its).banco_valor ELSE Head(its).erp_valor)
          ELSE 0)
         + SumOver(Tail(its), st, side)

RECURSIVE SumValor(_)
SumValor(txs) == IF txs = <<>> THEN 0 ELSE Head(txs).valor + SumValor(Tail(txs))

CountStatus(its, st) == Cardinality({i \in 1..Len(its) : its[i].status = st})

C9_AggregatesAgreeWithItems ==
    Finished =>
        /\ result.conciliados = CountStatus(result.items, "CONCILIADO")
        /\ result.so_banco = CountStatus(result.items, "SO_BANCO")
        /\ result.so_erp = CountStatus(result.items, "SO_ERP")
        /\ Len(result.items) = result.conciliados + result.so_banco + result.so_erp
        /\ result.valor_conciliado = SumOver(result.items, "CONCILIADO", "banco")
        /\ result.valor_so_banco = SumOver(result.items, "SO_BANCO", "banco")
        /\ result.valor_conciliado + result.valor_so_banco = SumValor(transactions)
        /\ result.valor_so_erp = SumOver(result.items, "SO_ERP", "erp")
        /\ result.conciliados + result.so_erp <= result.total_itens_erp

\* one item of each status, the matched one with amounts that differ
C9_Witness ==
    /\ Finished
    /\ result.conciliados = 1 /\ result.so_banco = 1 /\ result.so_erp = 1
    /\ \E i \in ItemsWith("CONCILIADO") : items[i].erp_valor # items[i].banco_valor
    /\ result.valor_so_erp > 0
    /\ result.valor_so_banco > 0

\* C10: taxa_conciliacao is conciliados / total_transacoes_banco * 100, is
\* exactly 100 for a statement without transactions, never divides by zero and
\* lies within 0..100.
C10_MatchRate ==
    Finished =>
        LET taxa == taxa_conciliacao(result)
        IN  /\ taxa.den > 0
            /\ 0 <= taxa.num /\ taxa.num <= 100 * taxa.den
            /\ Len(transactions) = 0 => taxa.num = 100 * taxa.den
            /\ Len(transactions) > 0 =>
                  taxa.num * Len(transactions)
                      = CountStatus(result.items, "CONCILIADO") * 100 * taxa.den

\* an empty statement, with ERP records left over
C10_Witness ==
    /\ Finished
    /\ Len(transactions) = 0
    /\ result.so_erp > 0
    /\ taxa_conciliacao(result) = [num |-> 100, den |-> 1]

\* ========================================================================
\* Part 2: cash projection
\*   dashboard/services/cashflow_service.py  (build_cash_projection)
\*
\* A record of this part is a dict with the fields status, nao_pago, total
\* and data_vencimento.  A status of "" stands for a missing or None status.
\* ========================================================================

\* ------------------------------------------------------------------------
\* Bounds of the cash projection
\* ------------------------------------------------------------------------
MaxCash == 1        \* current_cash is -MaxCash..MaxCash
MaxOpen == 2        \* open amounts are 0..MaxOpen
MaxObl == 2         \* obligations handed to a function (receivables + payables)
MaxDays == 61       \* longest horizon

\* the day indexes of the two snapshots (lines 149 and 151)
Snapshot30 == 30
Snapshot60 == 60

\* lines 49-52
_is_open(item) ==
    Upper(item.status) \notin {"PAID", "CANCELLED", "CANCELED"}

\* lines 55-57: float(item.get("nao_pago", item.get("total", 0)) or 0)
_unpaid_amount(item) ==
    LET raw == IF item.nao_pago # Absent THEN item.nao_pago
               ELSE IF item.total # Absent THEN item.total
               ELSE 0
    IN  IF raw = Null THEN 0 ELSE raw

\* dict.get(key, 0)
Get(dict, key) == IF key \in DOMAIN dict THEN dict[key] ELSE 0

\* dict[key] = value
Put(dict, key, value) ==
    [k \in DOMAIN dict \cup {key} |-> IF k = key THEN value ELSE dict[k]]

\* (mutant) an overdue obligation left on its own due date
FlowDateUnshifted(due_date) == due_date

\* lines 101-105 and 120-124: the day an obligation is applied on
FlowDate(due_date) == IF due_date < today THEN today ELSE due_date

\* lines 88-105 (receivables) and 107-124 (payables): the map of flows by
\* date after the first n records of the list
RECURSIVE DailyFlows(_, _)
DailyFlows(list, n) ==
    IF n = 0 THEN <<>>
    ELSE LET flows == DailyFlows(list, n - 1)
             item == list[n]
             amount == _unpaid_amount(item)
             due_date == ParseField(item.data_vencimento)
         IN  IF ~_is_open(item) THEN flows
             ELSE IF amount <= 0 THEN flows
             ELSE IF due_date = Null THEN flows
             ELSE Put(flows, FlowDate(due_date),
                      Get(flows, FlowDate(due_date)) + amount)

\* lines 82-133: the two maps and the start of the simulation
AccumulateFlows ==
    /\ pc = "flows"
    /\ daily_inflows' = DailyFlows(receivables, Len(receivables))
    /\ daily_outflows' = DailyFlows(payables, Len(payables))
    /\ rows' = <<>>
    /\ balance' = current_cash
    /\ min_balance' = current_cash
    /\ min_balance_date' = today
    /\ days_until_negative' = Null
    /\ balance_30d' = current_cash
    /\ balance_60d' = current_cash
    /\ pc' = IF days + 1 > 0 THEN "project" ELSE "return"
    /\ UNCHANGED <<receivables, payables, items, reconcileVars, today,
                   current_cash, days, projection, classifierVars, agingVars,
                   burnVars, runwayVars, delinquency,
                   extraVars>>

\* (mutant) the outflows of the day left out
DayBalanceInflowsOnly(d) == balance + Get(daily_inflows, d)

\* lines 137-138: the balance after the flows of day d
DayBalance(d) == balance + Get(daily_inflows, d) - Get(daily_outflows, d)

\* (mutant) the first breach overwritten by every later negative day
FirstBreachLatest(b, k) == IF b < 0 THEN k ELSE days_until_negative

\* lines 146-147
FirstBreach(b, k) ==
    IF b < 0 /\ days_until_negative = Null THEN k ELSE days_until_negative

\* lines 135-152: one pass of the loop, for i = len(rows)
ProjectDay ==
    /\ pc = "project"
    /\ LET k == Len(rows)
           d == today + k
           b == DayBalance(d)
       IN  /\ balance' = b
           /\ rows' = Append(rows, [date |-> d, balance |-> b])
           /\ min_balance' = IF b < min_balance THEN b ELSE min_balance
           /\ min_balance_date' = IF b < min_balance THEN d ELSE min_balance_date
           /\ days_until_negative' = FirstBreach(b, k)
           /\ balance_30d' = IF k = Snapshot30 THEN b ELSE balance_30d
           /\ balance_60d' = IF k = Snapshot60 THEN b ELSE balance_60d
           /\ pc' = IF k + 1 < days + 1 THEN "project" ELSE "return"
    /\ UNCHANGED <<receivables, payables, items, reconcileVars, today,
                   current_cash, days, daily_inflows, daily_outflows,
                   projection, classifierVars, agingVars, burnVars,
                   runwayVars, delinquency,
                   extraVars>>

\* lines 154-163
ReturnProjection ==
    /\ pc = "return"
    /\ projection' = [daily |-> rows,
                      min_balance |-> min_balance,
                      min_balance_date |-> min_balance_date,
                      days_until_negative |-> days_until_negative,
                      balance_30d |-> balance_30d,
                      balance_60d |-> balance_60d]
    /\ pc' = "done"
    /\ UNCHANGED <<receivables, payables, items, reconcileVars, today,
                   current_cash, days, daily_inflows, daily_outflows, balance,
                   min_balance, min_balance_date, days_until_negative,
                   balance_30d, balance_60d, rows, classifierVars, agingVars,
                   burnVars, runwayVars, delinquency,
                   extraVars>>

\* ------------------------------------------------------------------------
\* Inputs of the cash projection
\* ------------------------------------------------------------------------
OpenObligation(status, nao_pago, total, dv) ==
    [status |-> status, nao_pago |-> nao_pago, total |-> total,
     data_vencimento |-> dv]

Todays == 1..MaxDate

\* due dates around the days 0, 30 and 60 of a projection
DueDates ==
    {0, 1, MaxDate, MaxDate + 1} \cup
    {MaxDate + Snapshot30 - 1, MaxDate + Snapshot30,
     MaxDate + Snapshot60, MaxDate + MaxDays, MaxDate + MaxDays + 1}

OpenObligations ==
    \* open, with an open amount, on every due date
    {OpenObligation("OPEN", 1, Absent, d) : d \in DueDates}
    \cup {OpenObligation("OPEN", MaxOpen, Absent, d) : d \in {0, 1, MaxDate, MaxDate + 1}}
    \* no positive open amount
    \cup {OpenObligation("OPEN", 0, Absent, 1),
          OpenObligation("OPEN", Null, MaxOpen, 1)}
    \* the amount under total
    \cup {OpenObligation("OPEN", Absent, 1, 1)}
    \* no usable due date
    \cup {OpenObligation("OPEN", 1, Absent, d) : d \in {Absent, Null, Unparsable}}
    \* not open, or a status that is missing or in lower case
    \cup {OpenObligation(s, 1, Absent, 1) : s \in {"PAID", "CANCELLED", "CANCELED", "paid", ""}}

Horizons == {0, 2, Snapshot30, Snapshot30 + 1, Snapshot60, MaxDays}

\* the scenario of the dashboard's documentation: cash 5000, a payable of
\* 400 due in 5 days, a receivable of 1000 due in 10 days, 15 days ahead
ScenarioInit ==
    /\ today = 1
    /\ current_cash = 5000
    /\ receivables = <<OpenObligation("OPEN", 1000, Absent, 11)>>
    /\ payables = <<OpenObligation("OPEN", 400, Absent, 6)>>
    /\ days = 15

BoundedProjectionInit ==
    /\ today \in Todays
    /\ current_cash \in -MaxCash..MaxCash
    /\ \E n \in 0..MaxObl :
          /\ receivables \in SeqsUpTo(OpenObligations, n)
          /\ payables \in SeqsUpTo(OpenObligations, MaxObl - n)
    /\ Len(receivables) + Len(payables) <= MaxObl
    /\ days \in Horizons

ProjectionInit ==
    /\ BoundedProjectionInit \/ ScenarioInit
    /\ pc = "flows"
    /\ daily_inflows = Null /\ daily_outflows = Null
    /\ balance = Null /\ min_balance = Null /\ min_balance_date = Null
    /\ days_until_negative = Null /\ balance_30d = Null /\ balance_60d = Null
    /\ rows = <<>> /\ projection = Null
    /\ items = <<>>
    /\ ReconcileIdle /\ ClassifierIdle /\ AgingIdle /\ BurnIdle /\ RunwayIdle
    /\ DelinquencyIdle
    /\ ExtraIdle

ProjectionNext == AccumulateFlows \/ ProjectDay \/ ReturnProjection

ProjectionSpec == ProjectionInit /\ [][ProjectionNext]_vars

\* ------------------------------------------------------------------------
\* Properties of build_cash_projection
\* ------------------------------------------------------------------------

\* the positions of the records that take part in a projection: not PAID,
\* not CANCELLED, a positive open amount and a due date that parses
Projected(list) ==
    {k \in 1..Len(list) :
        /\ Upper(list[k].status) \notin {"PAID", "CANCELLED", "CANCELED"}
        /\ _unpaid_amount(list[k]) > 0
        /\ list[k].data_vencimento >= 0}

RECURSIVE SumOpen(_, _)
SumOpen(list, S) ==
    IF S = {} THEN 0
    ELSE LET k == CHOOSE x \in S : TRUE
         IN  _unpaid_amount(list[k]) + SumOpen(list, S \ {k})

\* open amount of the projected records due in the days lo..hi
OpenDue(list, lo, hi) ==
    SumOpen(list, {k \in Projected(list) :
                      list[k].data_vencimento >= lo /\ list[k].data_vencimento <= hi})

\* C11: the balance recorded for day 0 is current_cash plus the open amounts
\* of the open receivables due on or before today minus the open amounts of
\* the open payables due on or before today; records that are PAID or
\* CANCELLED, have no positive open amount or no usable due date add nothing.
C11_DayZeroBalance ==
    Len(rows) >= 1 =>
        rows[1].balance = current_cash + OpenDue(receivables, 0, today)
                                       - OpenDue(payables, 0, today)

\* an overdue receivable and a payable of another amount that falls due
\* today, both applied on day 0
C11_Witness ==
    /\ Len(rows) >= 1
    /\ \E k \in Projected(receivables) : receivables[k].data_vencimento < today
    /\ \E k \in Projected(payables) : payables[k].data_vencimento = today
    /\ rows[1].balance # current_cash

\* C12: a horizon of N days gives N+1 entries for the consecutive dates
\* today..today+N; from day 1 on each balance is the balance of the day
\* before plus the open receivables due exactly that day minus the open
\* payables due exactly that day; what falls due after today+N changes no
\* balance; the documented scenario gives 5000, then 4600 from day 5, then
\* 5600 from day 10.
C12_Timeline ==
    pc = "done" =>
        LET daily == projection.daily
        IN  /\ Len(daily) = days + 1
            /\ \A k \in 1..Len(daily) : daily[k].date = today + k - 1
            /\ \A k \in 2..Len(daily) :
                  daily[k].balance =
                      daily[k - 1].balance
                      + OpenDue(receivables, daily[k].date, daily[k].date)
                      - OpenDue(payables, daily[k].date, daily[k].date)
            /\ daily[days + 1].balance =
                  current_cash + OpenDue(receivables, 0, today + days)
                               - OpenDue(payables, 0, today + days)
            /\ current_cash = 5000 =>
                  \A k \in 1..Len(daily) :
                      daily[k].balance =
                          IF k - 1 < 5 THEN 5000
                          ELSE IF k - 1 < 10 THEN 4600 ELSE 5600

\* a finished projection with one receivable due past the horizon and one
\* payable due inside it, after day 0
C12_Witness ==
    /\ pc = "done"
    /\ days >= 2
    /\ \E k \in Projected(receivables) : receivables[k].data_vencimento > today + days
    /\ \E k \in Projected(payables) :
          /\ payables[k].data_vencimento > today
          /\ payables[k].data_vencimento <= today + days
    /\ projection.daily[days + 1].balance < current_cash

\* the day indexes recorded so far with a balance below zero
NegativeDays == {k \in 0..(Len(rows) - 1) : rows[k + 1].balance < 0}

LeastOf(S) == CHOOSE x \in S : \A y \in S : x <= y

\* C13: days_until_negative is set at the first day index whose balance is
\* below zero and no later day changes it, also when the balance recovers;
\* at the end it is the least index with a negative balance, None if no
\* day is negative.
C13_StickyFirstBreach ==
    /\ [](pc \in {"project", "return", "done"} =>
            days_until_negative =
                IF NegativeDays = {} THEN Null ELSE LeastOf(NegativeDays))
    /\ [][days_until_negative # Null =>
            days_until_negative' = days_until_negative]_vars

\* the balance fell below zero on some day and is not negative on a later one
C13_Witness ==
    /\ pc = "done"
    /\ days_until_negative # Null
    /\ days_until_negative >= 1
    /\ projection.days_until_negative = days_until_negative
    /\ \E k \in 1..Len(rows) :
          k - 1 > days_until_negative /\ rows[k].balance >= 0

\* C14: min_balance is the smallest balance of the timeline and
\* min_balance_date the date of the first entry with that balance.
C14_MinimumOfTimeline ==
    (pc = "done" /\ Len(projection.daily) >= 1) =>
        LET daily == projection.daily
            first == LeastOf({k \in 1..Len(daily) :
                                daily[k].balance = projection.min_balance})
        IN  /\ \E k \in 1..Len(daily) : daily[k].balance = projection.min_balance
            /\ \A k \in 1..Len(daily) : daily[k].balance >= projection.min_balance
            /\ projection.min_balance_date = daily[first].date

\* C15: balance_30d and balance_60d are the balances of day 30 and day 60
\* of the timeline, and are left out (None) when the horizon ends before
\* that day.
C15_SnapshotsOrNone ==
    pc = "done" =>
        /\ projection.balance_30d =
              IF days >= Snapshot30
              THEN projection.daily[Snapshot30 + 1].balance ELSE Null
        /\ projection.balance_60d =
              IF days >= Snapshot60
              THEN projection.daily[Snapshot60 + 1].balance ELSE Null

\* ========================================================================
\* Part 3: aging
\*   dashboard/services/cashflow_service.py
\*   (_classify_aging_bucket, compute_aging)
\* ========================================================================

\* line 28
BUCKET_ORDER == <<"Vencido", "0-30d", "31-60d", "60+d">>

\* the limits of the buckets (lines 42 and 44)
BucketLimit30 == 30
BucketLimit60 == 60

\* (mutant) the two limits taken as exclusive
BucketOfExclusive(diff) ==
    IF diff < 0 THEN "Vencido"
    ELSE IF diff < BucketLimit30 THEN "0-30d"
    ELSE IF diff < BucketLimit60 THEN "31-60d"
    ELSE "60+d"

\* lines 40-46
BucketOf(diff) ==
    IF diff < 0 THEN "Vencido"
    ELSE IF diff <= BucketLimit30 THEN "0-30d"
    ELSE IF diff <= BucketLimit60 THEN "31-60d"
    ELSE "60+d"

\* lines 31-46; ref_arg is Null when the caller passes no reference date
_classify_aging_bucket(due, ref_arg) ==
    LET ref == IF ref_arg # Null THEN ref_arg ELSE today
        dt == ParseField(due)
    IN  IF dt = Null THEN "Vencido" ELSE BucketOf(dt - ref)

Classify ==
    /\ pc = "classify"
    /\ bucket' = _classify_aging_bucket(due_date_str, ref_date)
    /\ pc' = "done"
    /\ UNCHANGED <<receivables, payables, items, reconcileVars, today,
                   projectionVars, due_date_str, ref_date, agingVars, burnVars,
                   runwayVars, delinquency,
                   extraVars>>

\* due dates up to the day after the longest horizon counted from the
\* latest today, and the values that hold no date
DueDateStrings == (0..(MaxDate + MaxDays + 1)) \cup {Absent, Null, Unparsable}

ClassifierInit ==
    /\ today \in Todays
    /\ due_date_str \in DueDateStrings
    /\ ref_date \in (0..MaxDate) \cup {Null}
    /\ bucket = Null
    /\ pc = "classify"
    /\ receivables = <<>> /\ payables = <<>> /\ items = <<>>
    /\ ReconcileIdle /\ ProjectionIdle /\ AgingIdle /\ BurnIdle /\ RunwayIdle
    /\ DelinquencyIdle
    /\ ExtraIdle

ClassifierNext == Classify

ClassifierSpec == ClassifierInit /\ [][ClassifierNext]_vars

\* the reference date of a call
RefOfCall == IF ref_date = Null THEN today ELSE ref_date

\* C16: with days_diff = due date - reference date, a negative days_diff is
\* OVERDUE (Vencido), 0..30 is 0-30, 31..60 is 31-60, more than 60 is 60+;
\* a missing or unparsable due date is OVERDUE; whatever is due before
\* today is OVERDUE.
C16_BucketOfDaysDiff ==
    pc = "done" =>
        /\ due_date_str < 0 => bucket = "Vencido"
        /\ due_date_str >= 0 =>
              LET days_diff == due_date_str - RefOfCall
              IN  /\ days_diff < 0 => bucket = "Vencido"
                  /\ (0 <= days_diff /\ days_diff <= 30) => bucket = "0-30d"
                  /\ (31 <= days_diff /\ days_diff <= 60) => bucket = "31-60d"
                  /\ days_diff > 60 => bucket = "60+d"
        /\ (ref_date = Null /\ due_date_str >= 0 /\ due_date_str < today) =>
              bucket = "Vencido"

\* a due date exactly 60 days after today, classified without a reference
\* date
C16_Witness ==
    /\ pc = "done"
    /\ ref_date = Null
    /\ due_date_str = today + 60
    /\ bucket = "31-60d"

\* ------------------------------------------------------------------------
\* compute_aging
\* ------------------------------------------------------------------------

\* line 170
EmptyBuckets == [b \in {BUCKET_ORDER[k] : k \in 1..Len(BUCKET_ORDER)} |->
                    [amount |-> 0, count |-> 0]]

\* (mutant) no record left out for its status
SkippedNever(item) == FALSE

\* lines 173-174: the record is left out
SkippedAsClosed(item) == filter_open /\ ~_is_open(item)

\* lines 172-182: the buckets after the first n records
RECURSIVE AgingBuckets(_, _)
AgingBuckets(list, n) ==
    IF n = 0 THEN EmptyBuckets
    ELSE LET buckets == AgingBuckets(list, n - 1)
             item == list[n]
             amount == _unpaid_amount(item)
             bucket_key == _classify_aging_bucket(item.data_vencimento, Null)
         IN  IF SkippedAsClosed(item) THEN buckets
             ELSE IF amount <= 0 THEN buckets
             ELSE IF bucket_key \in DOMAIN buckets
                  THEN [buckets EXCEPT
                           ![bucket_key] = [amount |-> @.amount + amount,
                                            count |-> @.count + 1]]
                  ELSE buckets

RECURSIVE SumAmounts(_, _)
SumAmounts(bucket_list, n) ==
    IF n = 0 THEN 0 ELSE SumAmounts(bucket_list, n - 1) + bucket_list[n].amount

\* lines 184-187
AgingSummary(list) ==
    LET buckets == AgingBuckets(list, Len(list))
        bucket_list == [k \in 1..Len(BUCKET_ORDER) |->
                           [label |-> BUCKET_ORDER[k],
                            amount |-> buckets[BUCKET_ORDER[k]].amount,
                            count |-> buckets[BUCKET_ORDER[k]].count]]
    IN  [buckets |-> bucket_list,
         total |-> SumAmounts(bucket_list, Len(bucket_list))]

\* lines 168-187
ComputeAging ==
    /\ pc = "aging"
    /\ aging' = AgingSummary(items)
    /\ pc' = "done"
    /\ UNCHANGED <<receivables, payables, items, reconcileVars, today,
                   projectionVars, classifierVars, filter_open, burnVars,
                   runwayVars, delinquency,
                   extraVars>>

AgingInit ==
    /\ today \in Todays
    /\ items \in SeqsUpTo(OpenObligations, MaxObl)
    /\ filter_open \in BOOLEAN
    /\ aging = Null
    /\ pc = "aging"
    /\ receivables = <<>> /\ payables = <<>>
    /\ ReconcileIdle /\ ProjectionIdle /\ ClassifierIdle /\ BurnIdle
    /\ RunwayIdle /\ DelinquencyIdle
    /\ ExtraIdle

AgingNext == ComputeAging

AgingSpec == AgingInit /\ [][AgingNext]_vars

\* the bucket the classification table of the documentation gives a record
BucketByTable(item) ==
    IF item.data_vencimento < 0 \/ item.data_vencimento < today THEN "Vencido"
    ELSE IF item.data_vencimento - today <= 30 THEN "0-30d"
    ELSE IF item.data_vencimento - today <= 60 THEN "31-60d"
    ELSE "60+d"

NotClosed(item) == Upper(item.status) \notin {"PAID", "CANCELLED", "CANCELED"}

\* the positions of the records with a positive open amount in bucket b,
\* all of them or only those that are not PAID or CANCELLED
InBucket(b, onlyOpen) ==
    {k \in 1..Len(items) :
        /\ _unpaid_amount(items[k]) > 0
        /\ onlyOpen => NotClosed(items[k])
        /\ BucketByTable(items[k]) = b}

\* each bucket holds the sum and the number of the records counted in it,
\* and the total is the sum of the four buckets and of the counted records
AgingAgrees(onlyOpen) ==
    /\ Len(aging.buckets) = 4
    /\ \A k \in 1..4 :
          /\ aging.buckets[k].label = BUCKET_ORDER[k]
          /\ aging.buckets[k].count = Cardinality(InBucket(BUCKET_ORDER[k], onlyOpen))
          /\ aging.buckets[k].amount = SumOpen(items, InBucket(BUCKET_ORDER[k], onlyOpen))
    /\ aging.total = aging.buckets[1].amount + aging.buckets[2].amount
                     + aging.buckets[3].amount + aging.buckets[4].amount
    /\ aging.total =
          SumOpen(items, {k \in 1..Len(items) :
                             /\ _unpaid_amount(items[k]) > 0
                             /\ onlyOpen => NotClosed(items[k])})

MonthLength == 2    \* days in a month of the model
MaxMonths == 4      \* longest burn-rate window, in months
MaxPaid == 3        \* payables handed to calculate_burn_rate
MaxBurn == 5        \* runway: cash and burn rate are -MaxBurn..MaxBurn

\* ------------------------------------------------------------------------
\* calculate_burn_rate
\* A record of this part is a payable with the fields pago,
\* data_competencia and data_vencimento.
\* ------------------------------------------------------------------------

\* strftime("%Y-%m") of a date, and the first 7 characters of a date string
MonthKey(d) == d \div MonthLength

\* d.replace(day=1)
FirstOfMonth(d) == d - (d % MonthLength)

\* (mutant) a window one month longer
MonthKeysOneMore(current, n) ==
    [k \in 1..(n + 1) |-> MonthKey(current) - (k - 1)]

\* lines 37-41: the keys of the window, the current month first
RECURSIVE MonthKeys(_, _)
MonthKeys(current, n) ==
    IF n = 0 THEN <<>>
    ELSE <<MonthKey(current)>> \o MonthKeys(FirstOfMonth(current - 1), n - 1)

month_keys == MonthKeys(FirstOfMonth(today), months)

\* line 46: float(item.get("pago", 0) or 0)
Pago(item) == IF item.pago = Absent \/ item.pago = Null THEN 0 ELSE item.pago

\* line 50: item.get("data_competencia", item.get("data_vencimento", ""))
BurnDate(item) ==
    IF item.data_competencia # Absent THEN item.data_competencia
    ELSE IF item.data_vencimento # Absent THEN item.data_vencimento
    ELSE Null

\* lines 43-56: the expenses by month after the first n payables
RECURSIVE MonthlyExpenses(_, _)
MonthlyExpenses(list, n) ==
    IF n = 0 THEN [mk \in {month_keys[k] : k \in 1..Len(month_keys)} |-> 0]
    ELSE LET monthly_expenses == MonthlyExpenses(list, n - 1)
             item == list[n]
             dt_str == BurnDate(item)
         IN  IF Pago(item) <= 0 THEN monthly_expenses
             ELSE IF dt_str < 0 THEN monthly_expenses
             ELSE IF MonthKey(dt_str) \in DOMAIN monthly_expenses
                  THEN [monthly_expenses EXCEPT ![MonthKey(dt_str)] = @ + Pago(item)]
                  ELSE monthly_expenses

\* line 59
current_month == MonthKey(today)

\* (mutant) the current month never set aside
PastActiveMonthsWithCurrent(monthly_expenses) ==
    {mk \in DOMAIN monthly_expenses : monthly_expenses[mk] > 0}

\* lines 60-63
PastActiveMonths(monthly_expenses) ==
    {mk \in DOMAIN monthly_expenses :
        monthly_expenses[mk] > 0 /\ mk # current_month}

\* lines 60-69
ActiveMonths(monthly_expenses) ==
    IF PastActiveMonths(monthly_expenses) # {}
    THEN PastActiveMonths(monthly_expenses)
    ELSE {mk \in DOMAIN monthly_expenses : monthly_expenses[mk] > 0}

RECURSIVE SumMonths(_, _)
SumMonths(monthly_expenses, S) ==
    IF S = {} THEN 0
    ELSE LET mk == CHOOSE x \in S : TRUE
         IN  monthly_expenses[mk] + SumMonths(monthly_expenses, S \ {mk})

\* lines 74-78: the months with an expense, in the order of their keys
RECURSIVE Breakdown(_, _)
Breakdown(monthly_expenses, S) ==
    IF S = {} THEN <<>>
    ELSE LET mk == CHOOSE x \in S : \A y \in S : x <= y
         IN  <<[month |-> mk, expense |-> monthly_expenses[mk]]>>
             \o Breakdown(monthly_expenses, S \ {mk})

\* lines 34-84
BurnRate(list) ==
    LET monthly_expenses == MonthlyExpenses(list, Len(list))
        active_months == ActiveMonths(monthly_expenses)
        total == SumMonths(monthly_expenses, active_months)
        count == IF Cardinality(active_months) > 1
                 THEN Cardinality(active_months) ELSE 1
    IN  [monthly_average |-> [num |-> total, den |-> count],
         months_used |-> count,
         monthly_breakdown |->
             Breakdown(monthly_expenses,
                       {mk \in DOMAIN monthly_expenses : monthly_expenses[mk] > 0})]

CalculateBurnRate ==
    /\ pc = "burn"
    /\ burn' = BurnRate(payables)
    /\ pc' = "done"
    /\ UNCHANGED <<receivables, payables, items, reconcileVars, today,
                   projectionVars, classifierVars, agingVars, months,
                   runwayVars, delinquency,
                   extraVars>>

PaidPayable(pago, dc, dv) ==
    [pago |-> pago, data_competencia |-> dc, data_vencimento |-> dv]

\* the first day of the months 0..MaxMonths
MonthStarts == {m * MonthLength : m \in 0..MaxMonths}

PaidPayables ==
    \* a payment in every month
    {PaidPayable(v, d, Absent) : v \in {1, 2}, d \in MonthStarts}
    \* nothing paid
    \cup {PaidPayable(v, MaxMonths * MonthLength, Absent) : v \in {0, Null, Absent}}
    \* the month under data_vencimento, used only when data_competencia is missing
    \cup {PaidPayable(1, Absent, (MaxMonths - 1) * MonthLength),
          PaidPayable(1, Null, (MaxMonths - 1) * MonthLength)}
    \* no month at all
    \cup {PaidPayable(1, Unparsable, Absent), PaidPayable(1, Absent, Absent)}
    \* a payment dated in the month after the current one
    \cup {PaidPayable(1, (MaxMonths + 1) * MonthLength, Absent)}

\* the scenario of the documentation: 1000, nothing and 2000 paid in the
\* three months before the current one
BurnScenarioInit ==
    /\ today = MaxMonths * MonthLength
    /\ months = 4
    /\ payables = <<PaidPayable(1000, (MaxMonths - 3) * MonthLength, Absent),
                    PaidPayable(2000, (MaxMonths - 1) * MonthLength, Absent)>>

BoundedBurnInit ==
    /\ today \in {MaxMonths * MonthLength + k : k \in 0..(MonthLength - 1)}
    /\ months \in 0..MaxMonths
    /\ payables \in SeqsUpTo(PaidPayables, MaxPaid)

BurnInit ==
    /\ BoundedBurnInit \/ BurnScenarioInit
    /\ burn = Null
    /\ pc = "burn"
    /\ receivables = <<>> /\ items = <<>>
    /\ ReconcileIdle /\ ProjectionIdle /\ ClassifierIdle /\ AgingIdle
    /\ RunwayIdle /\ DelinquencyIdle
    /\ ExtraIdle

BurnNext == CalculateBurnRate

BurnSpec == BurnInit /\ [][BurnNext]_vars

\* ------------------------------------------------------------------------
\* Properties of calculate_burn_rate
\* ------------------------------------------------------------------------

\* the months of the window: the current month and the months - 1 before it
Window == {MonthKey(today) - k : k \in 0..(months - 1)}

\* the month a payable is booked in: data_competencia, or data_vencimento
\* when the record has no data_competencia; Null when it names no month
BookedMonth(p) ==
    LET dt == IF p.data_competencia # Absent THEN p.data_competencia
              ELSE p.data_vencimento
    IN  IF dt >= 0 THEN dt \div MonthLength ELSE Null

\* what was paid in month m
RECURSIVE PaidIn(_, _)
PaidIn(m, n) ==
    IF n = 0 THEN 0
    ELSE PaidIn(m, n - 1)
         + (IF payables[n].pago > 0 /\ BookedMonth(payables[n]) = m
            THEN payables[n].pago ELSE 0)

Spend(m) == PaidIn(m, Len(payables))

RECURSIVE SumSpend(_)
SumSpend(S) ==
    IF S = {} THEN 0
    ELSE LET m == CHOOSE x \in S : TRUE IN Spend(m) + SumSpend(S \ {m})

\* the months of the window, the current one aside, with something paid
SpendingMonths == {m \in Window \ {MonthKey(today)} : Spend(m) > 0}

\* C18: the burn rate is the sum of what was paid in the months of the
\* window that have an expense, the current month aside, divided by the
\* number of those months; the current month is used only when no other
\* month of the window has an expense; a month without expense never enters
\* the denominator (1000, 0, 2000 average to 1500).
C18_BurnRateOverSpendingMonths ==
    pc = "done" =>
        LET avg == burn.monthly_average
        IN  /\ SpendingMonths # {} =>
                  /\ avg.den = Cardinality(SpendingMonths)
                  /\ avg.num = SumSpend(SpendingMonths)
            /\ (SpendingMonths = {} /\ months > 0 /\ Spend(MonthKey(today)) > 0) =>
                  /\ avg.den = 1
                  /\ avg.num = Spend(MonthKey(today))
            /\ (SpendingMonths = {} /\ (months = 0 \/ Spend(MonthKey(today)) = 0)) =>
                  avg.num = 0
            /\ burn.months_used = avg.den
            /\ (\E k \in 1..Len(payables) : payables[k].pago = 1000) =>
                  avg.num = 1500 * avg.den

\* two months with an expense, a month of the window without, and an
\* expense in the current month that is set aside
C18_Witness ==
    /\ pc = "done"
    /\ Cardinality(SpendingMonths) = 2
    /\ \E m \in Window : Spend(m) = 0
    /\ Spend(MonthKey(today)) > 0
    /\ burn.monthly_average.den = 2
    /\ burn.monthly_average.num = 3

\* the payables booked in a month of the window
InWindow == SelectSeq(payables, LAMBDA p : BookedMonth(p) \in Window)

\* C29: only payments dated in the current month or in one of the
\* months - 1 months before it count: a payment dated earlier, or in a
\* future month, changes neither monthly_average nor months_used nor the
\* breakdown; without any expense in the window the result is an average
\* of 0 with months_used = 1.
C29_OnlyWindowCounts ==
    pc = "done" =>
        /\ burn = BurnRate(InWindow)
        /\ \A k \in 1..Len(burn.monthly_breakdown) :
              /\ burn.monthly_breakdown[k].month \in Window
              /\ burn.monthly_breakdown[k].expense =
                    Spend(burn.monthly_breakdown[k].month)
        /\ Len(burn.monthly_breakdown) =
              Cardinality({m \in Window : Spend(m) > 0})
        /\ (\A m \in Window : Spend(m) = 0) =>
              /\ burn.monthly_average.num = 0
              /\ burn.months_used = 1

\* a payment in the window beside one in a future month and one dated
\* before the window
C29_Witness ==
    /\ pc = "done"
    /\ months >= 1
    /\ \E k \in 1..Len(payables) :
          payables[k].pago > 0 /\ BookedMonth(payables[k]) > MonthKey(today)
    /\ \E k \in 1..Len(payables) :
          /\ payables[k].pago > 0
          /\ BookedMonth(payables[k]) # Null
          /\ BookedMonth(payables[k]) <= MonthKey(today) - months
    /\ burn.monthly_average.num > 0

\* ------------------------------------------------------------------------
\* calculate_runway
\* ------------------------------------------------------------------------

\* (mutant) the quotient returned as it is
RunwayMonthsUnclamped(c, b) == [num |-> c, den |-> b]

\* lines 98-99: max(cash / burn_rate, 0), for burn_rate > 0
RunwayMonths(c, b) ==
    IF c < 0 THEN [num |-> 0, den |-> 1] ELSE [num |-> c, den |-> b]

\* lines 95-99
Runway(c, b) ==
    IF b <= 0
    THEN [months |-> "inf", is_infinite |-> TRUE]
    ELSE [months |-> RunwayMonths(c, b), is_infinite |-> FALSE]

CalculateRunway ==
    /\ pc = "runway"
    /\ runway' = Runway(cash, burn_rate)
    /\ pc' = "done"
    /\ UNCHANGED <<receivables, payables, items, reconcileVars, today,
                   projectionVars, classifierVars, agingVars, burnVars,
                   cash, burn_rate, delinquency,
                   extraVars>>

RunwayInit ==
    /\ cash \in -MaxBurn..MaxBurn
    /\ burn_rate \in -MaxBurn..MaxBurn
    /\ runway = Null
    /\ pc = "runway"
    /\ today = Null
    /\ receivables = <<>> /\ payables = <<>> /\ items = <<>>
    /\ ReconcileIdle /\ ProjectionIdle /\ ClassifierIdle /\ AgingIdle
    /\ BurnIdle /\ DelinquencyIdle
    /\ ExtraIdle

RunwayNext == CalculateRunway

RunwaySpec == RunwayInit /\ [][RunwayNext]_vars

IsOverduePaidOrNot(item) ==
    /\ ParseField(item.data_vencimento) # Null
    /\ ParseField(item.data_vencimento) < today

\* (mutant) a receivable due today taken as overdue
IsOverdueFromToday(item) ==
    /\ Upper(item.status) # "PAID"
    /\ ParseField(item.data_vencimento) # Null
    /\ ParseField(item.data_vencimento) <= today

\* lines 129-138
IsOverdue(item) ==
    /\ Upper(item.status) # "PAID"
    /\ ParseField(item.data_vencimento) # Null
    /\ ParseField(item.data_vencimento) < today

\* lines 112-138: the four totals after the first n receivables
RECURSIVE DelinquencyTotals(_, _)
DelinquencyTotals(list, n) ==
    IF n = 0
    THEN [total_receivable |-> 0, overdue_receivable |-> 0,
          overdue_count |-> 0, total_count |-> 0]
    ELSE LET t == DelinquencyTotals(list, n - 1)
             item == list[n]
             amount == _unpaid_amount(item)
         IN  IF Upper(item.status) \in {"CANCELLED", "CANCELED"} THEN t
             ELSE IF amount <= 0 THEN t
             ELSE [total_receivable |-> t.total_receivable + amount,
                   total_count |-> t.total_count + 1,
                   overdue_receivable |->
                       t.overdue_receivable + (IF IsOverdue(item) THEN amount ELSE 0),
                   overdue_count |->
                       t.overdue_count + (IF IsOverdue(item) THEN 1 ELSE 0)]

\* lines 140-148
Delinquency(list) ==
    LET t == DelinquencyTotals(list, Len(list))
    IN  [total_receivable |-> t.total_receivable,
         overdue_receivable |-> t.overdue_receivable,
         delinquency_rate |->
             IF t.total_receivable > 0
             THEN [num |-> t.overdue_receivable * 100, den |-> t.total_receivable]
             ELSE [num |-> 0, den |-> 1],
         overdue_count |-> t.overdue_count,
         total_count |-> t.total_count]

CalculateDelinquency ==
    /\ pc = "delinquency"
    /\ delinquency' = Delinquency(receivables)
    /\ pc' = "done"
    /\ UNCHANGED <<receivables, payables, items, reconcileVars, today,
                   projectionVars, classifierVars, agingVars, burnVars,
                   runwayVars,
                   extraVars>>

DelinquencyInit ==
    /\ today \in Todays
    /\ receivables \in SeqsUpTo(OpenObligations, MaxObl)
    /\ delinquency = Null
    /\ pc = "delinquency"
    /\ payables = <<>> /\ items = <<>>
    /\ ReconcileIdle /\ ProjectionIdle /\ ClassifierIdle /\ AgingIdle
    /\ BurnIdle /\ RunwayIdle
    /\ ExtraIdle

DelinquencyNext == CalculateDelinquency

DelinquencySpec == DelinquencyInit /\ [][DelinquencyNext]_vars

\* the positions of the receivables that are not cancelled and have a
\* positive open amount
Receivable == {k \in 1..Len(receivables) :
                  /\ Upper(receivables[k].status) \notin {"CANCELLED", "CANCELED"}
                  /\ _unpaid_amount(receivables[k]) > 0}

\* those of them that are not PAID and were due before today
Overdue == {k \in Receivable :
               /\ Upper(receivables[k].status) # "PAID"
               /\ receivables[k].data_vencimento >= 0
               /\ receivables[k].data_vencimento < today}

\* C20: over the receivables that are not cancelled and have a positive open
\* amount, rate = overdue open amount / total open amount x 100, overdue
\* meaning not PAID and due before today; the rate is 0 when the total is
\* 0; overdue never exceeds total, the rate is within 0..100 and
\* overdue_count <= total_count.
C20_DelinquencyRate ==
    pc = "done" =>
        LET rate == delinquency.delinquency_rate
        IN  /\ delinquency.total_receivable = SumOpen(receivables, Receivable)
            /\ delinquency.overdue_receivable = SumOpen(receivables, Overdue)
            /\ delinquency.total_count = Cardinality(Receivable)
            /\ delinquency.overdue_count = Cardinality(Overdue)
            /\ rate.den > 0
            /\ delinquency.total_receivable > 0 =>
                  rate.num * delinquency.total_receivable =
                      delinquency.overdue_receivable * 100 * rate.den
            /\ delinquency.total_receivable = 0 => rate.num = 0
            /\ delinquency.overdue_receivable <= delinquency.total_receivable
            /\ 0 <= rate.num /\ rate.num <= 100 * rate.den
            /\ delinquency.overdue_count <= delinquency.total_count

\* an overdue receivable beside one that falls due today
C20_Witness ==
    /\ pc = "done"
    /\ delinquency.overdue_count = 1
    /\ delinquency.total_count = 2
    /\ \E k \in Receivable : receivables[k].data_vencimento = today
    /\ delinquency.delinquency_rate.num > 0
    /\ delinquency.delinquency_rate.num < 100 * delinquency.delinquency_rate.den


\* ========================================================================
\* Part 5: the metrics of one dashboard refresh
\*   dashboard/app.py  (compute_all_metrics)
\* ========================================================================

\* line 97: recv_aging = compute_aging(receivables)
MetricsAging ==
    /\ pc = "metrics_aging"
    /\ aging' = AgingSummary(receivables)
    /\ pc' = "metrics_delinquency"
    /\ UNCHANGED <<receivables, payables, items, reconcileVars, today,
                   projectionVars, classifierVars, filter_open, burnVars,
                   runwayVars, delinquency, extraVars>>

\* line 116: delinquency = calculate_delinquency(receivables)
MetricsDelinquency ==
    /\ pc = "metrics_delinquency"
    /\ delinquency' = Delinquency(receivables)
    /\ pc' = "done"
    /\ UNCHANGED <<receivables, payables, items, reconcileVars, today,
                   projectionVars, classifierVars, agingVars, burnVars,
                   runwayVars, extraVars>>

MetricsInit ==
    /\ today \in Todays
    /\ receivables \in SeqsUpTo(OpenObligations, MaxObl)
    /\ filter_open = TRUE
    /\ aging = Null
    /\ delinquency = Null
    /\ pc = "metrics_aging"
    /\ payables = <<>> /\ items = <<>>
    /\ ReconcileIdle /\ ProjectionIdle /\ ClassifierIdle /\ BurnIdle
    /\ RunwayIdle /\ ExtraIdle

MetricsNext == MetricsAging \/ MetricsDelinquency

MetricsSpec == MetricsInit /\ [][MetricsNext]_vars

\* every receivable has a due date that is present and parses
AllDated == \A k \in 1..Len(receivables) : receivables[k].data_vencimento >= 0

\* C30: when every receivable has a present, parsable due date, the overdue
\* amount and count of calculate_delinquency are the amount and count of
\* the Vencido bucket of compute_aging for the same list on the same day.
C30_OverdueIsVencidoBucket ==
    (pc = "done" /\ AllDated) =>
        /\ aging.buckets[1].label = "Vencido"
        /\ delinquency.overdue_receivable = aging.buckets[1].amount
        /\ delinquency.overdue_count = aging.buckets[1].count

\* an overdue open receivable beside a PAID one with an earlier due date
C30_Witness ==
    /\ pc = "done"
    /\ AllDated
    /\ delinquency.overdue_count = 1
    /\ aging.buckets[1].count = 1
    /\ \E k \in 1..Len(receivables) :
          /\ Upper(receivables[k].status) = "PAID"
          /\ receivables[k].data_vencimento < today

\* ========================================================================
\* Part 6: monthly views
\*   dashboard/services/cashflow_service.py
\*   (compute_monthly_revenue_expenses, build_cash_history)
\*
\* A record of this part is a dict with the fields status, pago,
\* data_competencia and data_vencimento.  Months have MonthLength days, and
\* the 30 days of line 206, the length of a month, are MonthLength days.
\* The label of a month is left out of the rows.
\* ========================================================================

\* lines 60-62 of cashflow_service.py: float(item.get("pago", 0) or 0)
cashflow_paid_amount(item) ==
    IF item.pago = Absent \/ item.pago = Null THEN 0 ELSE item.pago

\* (mutant) the due date used whenever data_competencia holds no date
AccrualDateOrDue(item) ==
    IF item.data_competencia >= 0 THEN item.data_competencia
    ELSE IF item.data_vencimento # Absent THEN item.data_vencimento
    ELSE Null

\* lines 225, 235, 332, 341:
\* item.get("data_competencia", item.get("data_vencimento", ""))
AccrualDate(item) ==
    IF item.data_competencia # Absent THEN item.data_competencia
    ELSE IF item.data_vencimento # Absent THEN item.data_vencimento
    ELSE Null

\* lines 221-229, 231-239, 328-335, 337-344: what the first n records of the
\* list paid, by month, on top of the totals the loop starts from; any_month
\* is TRUE where a month without an entry gets one (lines 334-335) and FALSE
\* where it is passed over (lines 228-229)
RECURSIVE PaidByMonth(_, _, _, _)
PaidByMonth(list, n, start_totals, any_month) ==
    IF n = 0 THEN start_totals
    ELSE LET totals == PaidByMonth(list, n - 1, start_totals, any_month)
             item == list[n]
             pago == cashflow_paid_amount(item)
             dt_str == AccrualDate(item)
         IN  IF pago <= 0 THEN totals
             ELSE IF dt_str < 0 THEN totals
             ELSE IF any_month \/ MonthKey(dt_str) \in DOMAIN totals
                  THEN Put(totals, MonthKey(dt_str),
                           Get(totals, MonthKey(dt_str)) + pago)
                  ELSE totals

\* lines 206-216: the months from start to today, oldest first
RevenueMonthKeys ==
    LET start == FirstOfMonth(FirstOfMonth(today) - months * MonthLength)
    IN  [k \in 1..(MonthKey(today) - MonthKey(start) + 1) |->
            MonthKey(start) + k - 1]

\* lines 205-255
MonthlyResults ==
    LET keys == {RevenueMonthKeys[k] : k \in 1..Len(RevenueMonthKeys)}
        revenue == PaidByMonth(receivables, Len(receivables),
                               [mk \in keys |-> 0], FALSE)
        expense == PaidByMonth(payables, Len(payables),
                               [mk \in keys |-> 0], FALSE)
    IN  [k \in 1..Len(RevenueMonthKeys) |->
            [month_key |-> RevenueMonthKeys[k],
             revenue |-> revenue[RevenueMonthKeys[k]],
             expense |-> expense[RevenueMonthKeys[k]],
             result |-> revenue[RevenueMonthKeys[k]] - expense[RevenueMonthKeys[k]]]]

ComputeMonthly ==
    /\ pc = "monthly"
    /\ monthly' = MonthlyResults
    /\ pc' = "history"
    /\ UNCHANGED <<receivables, payables, items, reconcileVars, today,
                   projectionVars, classifierVars, agingVars, burnVars,
                   runwayVars, delinquency, history, batch, requestVars,
                   authVars>>

\* (mutant) the months left newest first
HistoryMonthKeysNewestFirst == MonthKeys(FirstOfMonth(today), months)

\* lines 347-353: the months of the history, oldest first
HistoryMonthKeys ==
    LET newest_first == MonthKeys(FirstOfMonth(today), months)
    IN  [k \in 1..Len(newest_first) |-> newest_first[Len(newest_first) + 1 - k]]

\* lines 356-373: the balance of the month `back` months before the current
\* one
RECURSIVE BalanceBack(_, _, _)
BalanceBack(monthly_inflows, monthly_outflows, back) ==
    IF back = 0 THEN current_cash
    ELSE LET prev_mk == MonthKey(today) - (back - 1)
         IN  BalanceBack(monthly_inflows, monthly_outflows, back - 1)
             - Get(monthly_inflows, prev_mk) + Get(monthly_outflows, prev_mk)

\* lines 322-380
CashHistory ==
    LET monthly_inflows == PaidByMonth(receivables, Len(receivables), <<>>, TRUE)
        monthly_outflows == PaidByMonth(payables, Len(payables), <<>>, TRUE)
    IN  [k \in 1..Len(HistoryMonthKeys) |->
            [month_key |-> HistoryMonthKeys[k],
             balance |-> BalanceBack(monthly_inflows, monthly_outflows,
                                     MonthKey(today) - HistoryMonthKeys[k])]]

BuildCashHistory ==
    /\ pc = "history"
    /\ history' = CashHistory
    /\ pc' = "burn_rate"
    /\ UNCHANGED <<receivables, payables, items, reconcileVars, today,
                   projectionVars, classifierVars, agingVars, burnVars,
                   runwayVars, delinquency, monthly, batch, requestVars,
                   authVars>>

\* calculate_burn_rate over the same payables
ViewsBurnRate ==
    /\ pc = "burn_rate"
    /\ burn' = BurnRate(payables)
    /\ pc' = "done"
    /\ UNCHANGED <<receivables, payables, items, reconcileVars, today,
                   projectionVars, classifierVars, agingVars, months,
                   runwayVars, delinquency, extraVars>>

PaidRecord(status, pago, dc, dv) ==
    [status |-> status, pago |-> pago, data_competencia |-> dc,
     data_vencimento |-> dv]

PaidRecords ==
    \* paid, booked in one of the last three months or in month 0
    {PaidRecord("PAID", v, m * MonthLength, Absent) :
        v \in {1, 2}, m \in {0, MaxMonths - 2, MaxMonths - 1, MaxMonths}}
    \* no data_competencia, or one that is None, beside a due date
    \cup {PaidRecord("PAID", 1, dc, (MaxMonths - 1) * MonthLength) :
            dc \in {Absent, Null, Unparsable}}
    \* nothing paid
    \cup {PaidRecord("PAID", v, MaxMonths * MonthLength, Absent) : v \in {0, Null}}
    \* partly paid and still open, or cancelled after a payment
    \cup {PaidRecord(s, 1, (MaxMonths - 1) * MonthLength, Absent) :
            s \in {"OPEN", "CANCELLED"}}

ViewsInit ==
    /\ today \in {MaxMonths * MonthLength + k : k \in 0..(MonthLength - 1)}
    /\ months \in 0..MaxMonths
    /\ current_cash \in -MaxCash..MaxCash
    /\ receivables \in SeqsUpTo(PaidRecords, MaxObl)
    /\ payables \in SeqsUpTo(PaidRecords, MaxObl - Len(receivables))
    /\ monthly = Null /\ history = Null /\ burn = Null
    /\ pc = "monthly"
    /\ items = <<>>
    /\ days = Null
    /\ daily_inflows = Null /\ daily_outflows = Null
    /\ balance = Null /\ min_balance = Null /\ min_balance_date = Null
    /\ days_until_negative = Null /\ balance_30d = Null /\ balance_60d = Null
    /\ rows = <<>> /\ projection = Null
    /\ batch = Null
    /\ ReconcileIdle /\ ClassifierIdle /\ AgingIdle /\ RunwayIdle
    /\ DelinquencyIdle /\ RequestIdle /\ AuthIdle

ViewsNext == ComputeMonthly \/ BuildCashHistory \/ ViewsBurnRate

ViewsSpec == ViewsInit /\ [][ViewsNext]_vars

\* the month a record is booked in by lines 225 and 332: that of
\* data_competencia, or of data_vencimento when the record has no
\* data_competencia; Null when that names no month
MonthOf(p) ==
    LET dt == IF p.data_competencia # Absent THEN p.data_competencia
              ELSE p.data_vencimento
    IN  IF dt >= 0 THEN dt \div MonthLength ELSE Null

\* what the first n records of the list paid in month m
RECURSIVE PaidInMonth(_, _, _)
PaidInMonth(list, m, n) ==
    IF n = 0 THEN 0
    ELSE PaidInMonth(list, m, n - 1)
         + (IF list[n].pago > 0 /\ MonthOf(list[n]) = m THEN list[n].pago ELSE 0)

\* C21: the cash history has one row per month for exactly `months`
\* consecutive months that end with the current month, oldest first; the
\* balance of the current month is current_cash, and the balance of every
\* earlier month is the balance of the month after it, minus what the
\* receivables paid in that next month, plus what the payables paid in it.
C21_HistoryWalksBack ==
    pc \in {"burn_rate", "done"} =>
        /\ Len(history) = months
        /\ \A k \in 1..Len(history) :
              history[k].month_key = MonthKey(today) - (months - k)
        /\ months > 0 => history[months].balance = current_cash
        /\ \A k \in 1..(Len(history) - 1) :
              LET next_month == history[k + 1].month_key
              IN  history[k].balance =
                      history[k + 1].balance
                      - PaidInMonth(receivables, next_month, Len(receivables))
                      + PaidInMonth(payables, next_month, Len(payables))

\* a history of three months or more, with a receipt in the current month
\* and a payment in the month before
C21_Witness ==
    /\ pc \in {"burn_rate", "done"}
    /\ months >= 3
    /\ PaidInMonth(receivables, MonthKey(today), Len(receivables)) > 0
    /\ PaidInMonth(payables, MonthKey(today) - 1, Len(payables)) > 0
    /\ history[months - 2].balance # history[months - 1].balance
    /\ history[months - 1].balance # history[months].balance

\* the month the paid amount of a record belongs to: that of its accrual
\* date, or that of its due date when the accrual date is absent, null or
\* empty; Null when there is none
DocumentedMonth(p) ==
    IF p.data_competencia >= 0 THEN p.data_competencia \div MonthLength
    ELSE IF p.data_competencia \in {Absent, Null} /\ p.data_vencimento >= 0
         THEN p.data_vencimento \div MonthLength
    ELSE Null

RECURSIVE DocumentedPaid(_, _, _)
DocumentedPaid(list, m, n) ==
    IF n = 0 THEN 0
    ELSE DocumentedPaid(list, m, n - 1)
         + (IF list[n].pago > 0 /\ DocumentedMonth(list[n]) = m
            THEN list[n].pago ELSE 0)

\* C22: a paid amount is counted in the month of the accrual date, and in
\* the month of the due date when the record has no usable accrual date
\* (field absent, null or empty), in the monthly revenue and expense, in the
\* cash history and in the burn rate alike.
C22_DueDateWhenNoAccrual ==
    pc = "done" =>
        /\ \A k \in 1..Len(monthly) :
              /\ monthly[k].revenue =
                     DocumentedPaid(receivables, monthly[k].month_key, Len(receivables))
              /\ monthly[k].expense =
                     DocumentedPaid(payables, monthly[k].month_key, Len(payables))
        /\ \A k \in 1..(Len(history) - 1) :
              LET next_month == history[k + 1].month_key
              IN  history[k].balance =
                      history[k + 1].balance
                      - DocumentedPaid(receivables, next_month, Len(receivables))
                      + DocumentedPaid(payables, next_month, Len(payables))
        /\ \A m \in {MonthKey(today) - k : k \in 0..(months - 1)} :
              LET paid == DocumentedPaid(payables, m, Len(payables))
              IN  paid > 0 =>
                    \E k \in 1..Len(burn.monthly_breakdown) :
                        /\ burn.monthly_breakdown[k].month = m
                        /\ burn.monthly_breakdown[k].expense = paid

\* what the first n records of the list with status PAID paid in month m
RECURSIVE PaidStatusInMonth(_, _, _)
PaidStatusInMonth(list, m, n) ==
    IF n = 0 THEN 0
    ELSE PaidStatusInMonth(list, m, n - 1)
         + (IF Upper(list[n].status) = "PAID" /\ list[n].pago > 0
               /\ MonthOf(list[n]) = m
            THEN list[n].pago ELSE 0)

\* C23: only the obligations with status PAID and a paid amount above zero
\* feed the monthly revenue and expense; an OPEN or CANCELLED obligation
\* contributes nothing, whatever its paid amount.
C23_OnlyPaidStatusFeeds ==
    pc \in {"history", "burn_rate", "done"} =>
        \A k \in 1..Len(monthly) :
            /\ monthly[k].revenue =
                   PaidStatusInMonth(receivables, monthly[k].month_key, Len(receivables))
            /\ monthly[k].expense =
                   PaidStatusInMonth(payables, monthly[k].month_key, Len(payables))

\* ========================================================================
\* Part 7: records with a malformed amount or date
\*   build_cash_projection, compute_aging (cashflow_service.py),
\*   calculate_delinquency, calculate_burn_rate (metrics_service.py)
\*
\* A record of this part has the fields status, nao_pago, total, pago,
\* data_competencia and data_vencimento.  An amount that is Unparsable is a
\* string float() does not take: float() raises ValueError, and none of the
\* four functions catches it.  batch holds the function called and whether
\* the call raised.
\* ========================================================================

\* float(x) raises ValueError
FloatRaises(x) == x = Unparsable

\* cashflow_service.py line 57, metrics_service.py line 122:
\* float(item.get("nao_pago", item.get("total", 0)) or 0) raises
UnpaidRaises(item) ==
    FloatRaises(IF item.nao_pago # Absent THEN item.nao_pago ELSE item.total)

\* the call raises: some record reaches a float() that raises
CallRaises(call) ==
    CASE call = "build_cash_projection" ->
            \* lines 88-91 and 107-110
            \E list \in {receivables, payables} : \E k \in 1..Len(list) :
                _is_open(list[k]) /\ UnpaidRaises(list[k])
      [] call = "compute_aging" ->
            \* lines 172-175
            \E k \in 1..Len(receivables) :
                ~SkippedAsClosed(receivables[k]) /\ UnpaidRaises(receivables[k])
      [] call = "calculate_delinquency" ->
            \* metrics_service.py lines 117-122
            \E k \in 1..Len(receivables) :
                /\ Upper(receivables[k].status) \notin {"CANCELLED", "CANCELED"}
                /\ UnpaidRaises(receivables[k])
      [] call = "calculate_burn_rate" ->
            \* metrics_service.py lines 45-46
            \E k \in 1..Len(payables) : FloatRaises(payables[k].pago)

\* a call that raises leaves batch.raised set and changes nothing else
BatchProjection ==
    /\ pc = "flows"
    /\ IF CallRaises("build_cash_projection")
       THEN /\ batch' = [batch EXCEPT !.raised = TRUE]
            /\ pc' = "done"
            /\ UNCHANGED <<receivables, payables, items, reconcileVars, today,
                           projectionVars, classifierVars, agingVars, burnVars,
                           runwayVars, delinquency, monthly, history,
                           requestVars, authVars>>
       ELSE AccumulateFlows

BatchAging ==
    /\ pc = "compute_aging"
    /\ IF CallRaises("compute_aging")
       THEN /\ batch' = [batch EXCEPT !.raised = TRUE]
            /\ pc' = "done"
            /\ UNCHANGED aging
       ELSE /\ aging' = AgingSummary(receivables)
            /\ pc' = "done"
            /\ UNCHANGED batch
    /\ UNCHANGED <<receivables, payables, items, reconcileVars, today,
                   projectionVars, classifierVars, filter_open, burnVars,
                   runwayVars, delinquency, monthly, history, requestVars,
                   authVars>>

BatchDelinquency ==
    /\ pc = "calculate_delinquency"
    /\ IF CallRaises("calculate_delinquency")
       THEN /\ batch' = [batch EXCEPT !.raised = TRUE]
            /\ pc' = "done"
            /\ UNCHANGED delinquency
       ELSE /\ delinquency' = Delinquency(receivables)
            /\ pc' = "done"
            /\ UNCHANGED batch
    /\ UNCHANGED <<receivables, payables, items, reconcileVars, today,
                   projectionVars, classifierVars, agingVars, burnVars,
                   runwayVars, monthly, history, requestVars, authVars>>

BatchBurnRate ==
    /\ pc = "calculate_burn_rate"
    /\ IF CallRaises("calculate_burn_rate")
       THEN /\ batch' = [batch EXCEPT !.raised = TRUE]
            /\ pc' = "done"
            /\ UNCHANGED burn
       ELSE /\ burn' = BurnRate(payables)
            /\ pc' = "done"
            /\ UNCHANGED batch
    /\ UNCHANGED <<receivables, payables, items, reconcileVars, today,
                   projectionVars, classifierVars, agingVars, months,
                   runwayVars, delinquency, monthly, history, requestVars,
                   authVars>>

BatchRecord(status, nao_pago, pago, dc, dv) ==
    [status |-> status, nao_pago |-> nao_pago, total |-> Absent, pago |-> pago,
     data_competencia |-> dc, data_vencimento |-> dv]

BatchRecords ==
    \* open, overdue or due tomorrow, or with a date that is no date
    {BatchRecord("OPEN", 1, 0, (MaxMonths - 1) * MonthLength, dv) :
        dv \in {MaxMonths * MonthLength - 1, (MaxMonths + 1) * MonthLength,
                Unparsable, Null}}
    \* open, with an open amount that is no number
    \cup {BatchRecord("OPEN", Unparsable, 0, (MaxMonths - 1) * MonthLength,
                      (MaxMonths + 1) * MonthLength)}
    \* paid last month; the month that is no date
    \cup {BatchRecord("PAID", 0, 1, dc, MaxMonths * MonthLength - 1) :
            dc \in {(MaxMonths - 1) * MonthLength, Unparsable}}
    \* paid, with a paid amount or an open amount that is no number
    \cup {BatchRecord("PAID", 0, Unparsable, (MaxMonths - 1) * MonthLength, Absent),
          BatchRecord("PAID", Unparsable, 1, (MaxMonths - 1) * MonthLength, Absent)}
    \* cancelled, with an open amount that is no number
    \cup {BatchRecord("CANCELLED", Unparsable, 0, Absent, Absent)}

BatchInit ==
    /\ today \in {MaxMonths * MonthLength + k : k \in 0..(MonthLength - 1)}
    /\ current_cash \in -MaxCash..MaxCash
    /\ days \in {0, 2}
    /\ months = MaxMonths
    /\ filter_open = TRUE
    /\ receivables \in SeqsUpTo(BatchRecords, MaxObl)
    /\ payables \in SeqsUpTo(BatchRecords, MaxObl - Len(receivables))
    /\ \E call \in {"build_cash_projection", "compute_aging",
                    "calculate_delinquency", "calculate_burn_rate"} :
          /\ batch = [call |-> call, raised |-> FALSE]
          /\ pc = IF call = "build_cash_projection" THEN "flows" ELSE call
    /\ daily_inflows = Null /\ daily_outflows = Null
    /\ balance = Null /\ min_balance = Null /\ min_balance_date = Null
    /\ days_until_negative = Null /\ balance_30d = Null /\ balance_60d = Null
    /\ rows = <<>> /\ projection = Null
    /\ aging = Null /\ burn = Null /\ delinquency = Null
    /\ monthly = Null /\ history = Null
    /\ items = <<>>
    /\ ReconcileIdle /\ ClassifierIdle /\ RunwayIdle /\ RequestIdle /\ AuthIdle

BatchNext ==
    \/ BatchProjection
    \/ ProjectDay
    \/ ReturnProjection
    \/ BatchAging
    \/ BatchDelinquency
    \/ BatchBurnRate

BatchSpec == BatchInit /\ [][BatchNext]_vars

\* the amounts of the record are numbers, or missing
AmountsWellFormed(item) ==
    item.nao_pago # Unparsable /\ item.total # Unparsable /\ item.pago # Unparsable

\* the amounts and the dates of the record are well formed
WellFormed(item) ==
    /\ AmountsWellFormed(item)
    /\ item.data_competencia # Unparsable
    /\ item.data_vencimento # Unparsable

\* C24: a record with a malformed date or a malformed amount never aborts
\* build_cash_projection, compute_aging, calculate_delinquency or
\* calculate_burn_rate: the call returns normally, and its result is that of
\* the remaining records processed alone (a date that is no date falls
\* under the "Vencido" fallback in compute_aging and is no overdue date in
\* calculate_delinquency).
C24_MalformedRecordSkipped ==
    pc = "done" =>
        /\ ~batch.raised
        /\ batch.call = "build_cash_projection" =>
              /\ daily_inflows =
                    DailyFlows(SelectSeq(receivables, WellFormed),
                               Len(SelectSeq(receivables, WellFormed)))
              /\ daily_outflows =
                    DailyFlows(SelectSeq(payables, WellFormed),
                               Len(SelectSeq(payables, WellFormed)))
              /\ Len(projection.daily) = days + 1
        /\ batch.call = "compute_aging" =>
              aging = AgingSummary(SelectSeq(receivables, AmountsWellFormed))
        /\ batch.call = "calculate_delinquency" =>
              delinquency = Delinquency(SelectSeq(receivables, AmountsWellFormed))
        /\ batch.call = "calculate_burn_rate" =>
              burn = BurnRate(SelectSeq(payables, WellFormed))

\* ========================================================================
\* Part 8: the retry loop of the API clients
\*   dashboard/api/contaazul_client.py (ContaAzulClient._request)
\*   dashboard/api/inter_client.py (InterClient._request, the same code)
\*
\* An exception is a record [type, status]; last_error = None is the record
\* of type "None".  response is the list of what the passes of the loop got:
\* [type, status, sent, refresh], where type is "ok" or the type of the
\* exception raised inside the try, sent tells whether the request went out
\* (an exception raised by _get_headers, which asks for the token, comes
\* before it), and refresh is what the refresh after a 401 did.  sent and
\* refreshes count the requests sent and the refreshes after a 401.
\* ========================================================================

\* config.py line 48
MAX_RETRIES == 3

\* (mutant) every status retried
RetryableAlways(status) == TRUE

\* line 74
Retryable(status) == status \in {429, 500, 502, 503, 504}

\* (mutant) a refresh after every 401
Refreshes401Always(status, n) == status = 401

\* line 67
Refreshes401(status, n) == status = 401 /\ n = 0

\* (mutant) the exception not kept
RecordedNothing(e) == [type |-> "None", status |-> 0]

\* lines 75 and 80: last_error = e
Recorded(e) == [type |-> e.type, status |-> e.status]

\* what one pass of the loop can get (lines 57-62): a response with content
\* or without, an HTTPError with the status of its response (0 without a
\* response), a ConnectionError, or an exception of another type (a
\* timeout, a body that is no JSON, a ValueError of get_access_token)
Outcomes ==
    {[type |-> "ok", status |-> s, sent |-> TRUE] : s \in {200, 204}}
    \cup {[type |-> "HTTPError", status |-> s, sent |-> b] :
            s \in {0, 401, 403, 404, 429, 500, 502, 503, 504}, b \in BOOLEAN}
    \cup {[type |-> t, status |-> 0, sent |-> b] :
            t \in {"ConnectionError", "OtherError"}, b \in BOOLEAN}

\* lines 53-82: one pass of the loop
Attempt ==
    /\ pc = "request"
    /\ attempt < MAX_RETRIES
    /\ \E got \in Outcomes, refresh_ok \in BOOLEAN :
          LET refresh == IF got.type = "HTTPError" /\ Refreshes401(got.status, attempt)
                         THEN IF refresh_ok THEN "ok" ELSE "failed"
                         ELSE "none"
              \* the exception as the loop sees it
              e == [type |-> got.type, status |-> got.status]
          IN  /\ refresh = "none" => refresh_ok
              /\ response' = Append(response, [type |-> got.type,
                                               status |-> got.status,
                                               sent |-> got.sent,
                                               refresh |-> refresh])
              /\ sent' = sent + (IF got.sent THEN 1 ELSE 0)
              /\ refreshes' = refreshes + (IF refresh = "none" THEN 0 ELSE 1)
              /\ CASE got.type = "ok" ->
                        \* lines 60-63
                        /\ outcome' = [kind |-> "return",
                                       value |-> IF got.status = 204 THEN "None" ELSE "json",
                                       error |-> [type |-> "None", status |-> 0]]
                        /\ pc' = "done"
                        /\ UNCHANGED <<attempt, last_error>>
                   [] got.type = "HTTPError" /\ refresh = "ok" ->
                        \* lines 67-70
                        /\ attempt' = attempt + 1
                        /\ UNCHANGED <<last_error, outcome, pc>>
                   [] got.type = "HTTPError" /\ refresh # "ok" /\ Retryable(got.status) ->
                        \* lines 74-77
                        /\ last_error' = Recorded(e)
                        /\ attempt' = attempt + 1
                        /\ UNCHANGED <<outcome, pc>>
                   [] got.type = "HTTPError" /\ refresh # "ok" /\ ~Retryable(got.status) ->
                        \* line 78
                        /\ outcome' = [kind |-> "raise", value |-> "None", error |-> e]
                        /\ pc' = "done"
                        /\ UNCHANGED <<attempt, last_error>>
                   [] got.type = "ConnectionError" ->
                        \* lines 79-82
                        /\ last_error' = Recorded(e)
                        /\ attempt' = attempt + 1
                        /\ UNCHANGED <<outcome, pc>>
                   [] got.type = "OtherError" ->
                        \* no except clause takes it
                        /\ outcome' = [kind |-> "raise", value |-> "None", error |-> e]
                        /\ pc' = "done"
                        /\ UNCHANGED <<attempt, last_error>>
    /\ UNCHANGED <<receivables, payables, items, reconcileVars, today,
                   projectionVars, classifierVars, agingVars, burnVars,
                   runwayVars, delinquency, monthly, history, batch, authVars>>

\* line 84: raise last_error; raising None is a TypeError
RaiseLastError ==
    /\ pc = "request"
    /\ attempt = MAX_RETRIES
    /\ outcome' = [kind |-> "raise", value |-> "None",
                   error |-> IF last_error.type = "None"
                             THEN [type |-> "TypeError", status |-> 0]
                             ELSE last_error]
    /\ pc' = "done"
    /\ UNCHANGED <<receivables, payables, items, reconcileVars, today,
                   projectionVars, classifierVars, agingVars, burnVars,
                   runwayVars, delinquency, monthly, history, batch,
                   attempt, last_error, response, sent, refreshes, authVars>>

\* line 52
RequestInit ==
    /\ pc = "request"
    /\ attempt = 0
    /\ last_error = [type |-> "None", status |-> 0]
    /\ response = <<>>
    /\ outcome = [kind |-> "none", value |-> "None",
                  error |-> [type |-> "None", status |-> 0]]
    /\ sent = 0
    /\ refreshes = 0
    /\ receivables = <<>> /\ payables = <<>> /\ items = <<>>
    /\ today = Null
    /\ monthly = Null /\ history = Null /\ batch = Null
    /\ ReconcileIdle /\ ProjectionIdle /\ ClassifierIdle /\ AgingIdle
    /\ BurnIdle /\ RunwayIdle /\ DelinquencyIdle /\ AuthIdle

RequestNext == Attempt \/ RaiseLastError

RequestSpec == RequestInit /\ [][RequestNext]_vars

\* every call the loop makes comes back, and the sleeps between the passes
\* end: a pass that can be taken is taken
RequestFairSpec == RequestSpec /\ WF_vars(RequestNext)

\* the pass got something the loop goes on after
GoesOn(r) ==
    \/ r.type = "ConnectionError"
    \/ r.type = "HTTPError" /\ r.status \in {429, 500, 502, 503, 504}

\* the pass got a 401 on the first attempt and the refresh went through
Refreshed(k) ==
    /\ k = 1
    /\ response[k].type = "HTTPError" /\ response[k].status = 401
    /\ response[k].refresh = "ok"

RequestShape ==
    /\ attempt <= MAX_RETRIES
    /\ Len(response) <= MAX_RETRIES
    /\ sent <= Len(response)
    \* a further pass only after a 429/500/502/503/504, a connection error,
    \* or a 401 on the first attempt with a refresh that went through
    /\ \A k \in 1..(Len(response) - 1) : GoesOn(response[k]) \/ Refreshed(k)
    /\ pc = "done" =>
          LET last == response[Len(response)]
          IN  \* the first successful response is returned
              /\ outcome.kind = "return" <=> (Len(response) > 0 /\ last.type = "ok")
              \* any other HTTP error is raised at once
              /\ (Len(response) > 0 /\ last.type = "HTTPError"
                    /\ ~GoesOn(last) /\ ~Refreshed(Len(response))) =>
                    /\ outcome.kind = "raise"
                    /\ outcome.error = [type |-> "HTTPError", status |-> last.status]
              \* all attempts used up: the last recorded error is raised
              /\ (Len(response) > 0 /\ (GoesOn(last) \/ Refreshed(Len(response)))) =>
                    /\ Len(response) = MAX_RETRIES
                    /\ outcome.kind = "raise"
                    /\ \E k \in 1..Len(response) :
                          /\ GoesOn(response[k])
                          /\ \A j \in (k + 1)..Len(response) : ~GoesOn(response[j])
                          /\ outcome.error = [type |-> response[k].type,
                                              status |-> response[k].status]

C26_OneRefreshAfter401 ==
    /\ refreshes <= 1
    /\ \A k \in 1..Len(response) :
          /\ response[k].refresh # "none" =>
                k = 1 /\ response[k].type = "HTTPError" /\ response[k].status = 401
          /\ (k = 1 /\ response[k].type = "HTTPError" /\ response[k].status = 401) =>
                response[k].refresh # "none"
          /\ Refreshed(k) =>
                /\ attempt >= 1
                /\ sent <= MAX_RETRIES - 1 + (IF response[1].sent THEN 1 ELSE 0)
                /\ pc = "done" => Len(response) > 1
          /\ (response[k].type = "HTTPError" /\ response[k].status = 401
                /\ ~Refreshed(k)) =>
                /\ k = Len(response)
                /\ pc = "done"
                /\ outcome.kind = "raise"
                /\ outcome.error = [type |-> "HTTPError", status |-> 401]

\* a 401 on the first attempt, a refresh that went through, and a second 401
\* raised to the caller
C26_Witness ==
    /\ pc = "done"
    /\ Len(response) = 2
    /\ Refreshed(1)
    /\ response[2].status = 401
    /\ refreshes = 1
    /\ outcome.kind = "raise" /\ outcome.error.status = 401

\* C28: with MAX_RETRIES = 3, when the loop is left without a return or a
\* raise inside it, last_error holds a recorded exception: `raise last_error`
\* is never reached with last_error still None.
C28_LastErrorRecorded ==
    /\ (pc = "request" /\ attempt = MAX_RETRIES) => last_error.type # "None"
    /\ (pc = "done" /\ outcome.kind = "raise") => outcome.error.type # "TypeError"

\* the loop left after a 401 with a refresh that went through and two
\* attempts that failed
C28_Witness ==
    /\ pc = "request"
    /\ attempt = MAX_RETRIES
    /\ Refreshed(1)
    /\ last_error.type # "None"

\* ========================================================================
\* Part 9: the access token
\*   dashboard/api/auth.py (ContaAzulAuth.get_access_token, _refresh,
\*   _save_token, _load_token)
\*
\* A token is a number, None is Null.  token_file is a record whose field
\* exists tells whether the file is there.  clock is time.time() in
\* seconds.  token_result is what the last call of get_access_token did:
\* [kind, value, via, token_data], where via names the branch taken and
\* token_data is what the token endpoint answered (Null without a contact);
\* contacts counts the requests the call sent to the token endpoint.
\* ========================================================================

MaxClock == 3600

\* line 139: the default of expires_in
DefaultExpiresIn == 3600

\* line 140: the margin taken off the lifetime
ExpiryMargin == 60

\* lines 136-154: the fields after _save_token(token_data); the file is
\* written unless open() raises OSError
_save_token(st, token_data, now, writable) ==
    LET at == token_data.access_token
        rt == IF token_data.refresh_token # Absent
              THEN token_data.refresh_token ELSE st.refresh_token
        expires_in == IF token_data.expires_in # Absent
                      THEN token_data.expires_in ELSE DefaultExpiresIn
        ea == now + expires_in - ExpiryMargin
    IN  [access_token |-> at, refresh_token |-> rt, expires_at |-> ea,
         token_file |-> IF writable
                        THEN [exists |-> TRUE, access_token |-> at,
                              refresh_token |-> rt, expires_at |-> ea]
                        ELSE st.token_file]

\* lines 160-164: the fields after _load_token() found the file
_load_token(st) ==
    [access_token |-> st.token_file.access_token,
     refresh_token |-> st.token_file.refresh_token,
     expires_at |-> st.token_file.expires_at,
     token_file |-> st.token_file]

\* lines 116-132: _refresh() with the answer of the token endpoint
_refresh(st, answer, now, writable, via) ==
    IF st.refresh_token = Null
    THEN [st |-> st, contacts |-> 0,
          result |-> [kind |-> "ValueError", value |-> Null, via |-> via,
                      token_data |-> Null]]
    ELSE IF answer.type # "ok"
    THEN [st |-> st, contacts |-> 1,
          result |-> [kind |-> answer.type, value |-> Null, via |-> via,
                      token_data |-> Null]]
    ELSE LET saved == _save_token(st, answer, now, writable)
         IN  [st |-> saved, contacts |-> 1,
              result |-> [kind |-> "return", value |-> saved.access_token,
                          via |-> via, token_data |-> answer]]

\* (mutant) the file read before the refresh token in memory is used
get_access_tokenFileFirst(st, answer, now, writable) ==
    IF st.access_token # Null /\ now < st.expires_at
    THEN [st |-> st, contacts |-> 0,
          result |-> [kind |-> "return", value |-> st.access_token,
                      via |-> "memory", token_data |-> Null]]
    ELSE IF st.token_file.exists /\ now < st.token_file.expires_at
    THEN [st |-> _load_token(st), contacts |-> 0,
          result |-> [kind |-> "return", value |-> st.token_file.access_token,
                      via |-> "file", token_data |-> Null]]
    ELSE _refresh(st, answer, now, writable, "refresh")

\* lines 63-85
get_access_token(st, answer, now, writable) ==
    IF st.access_token # Null /\ now < st.expires_at
    THEN [st |-> st, contacts |-> 0,
          result |-> [kind |-> "return", value |-> st.access_token,
                      via |-> "memory", token_data |-> Null]]
    ELSE IF st.refresh_token # Null
    THEN _refresh(st, answer, now, writable, "refresh")
    ELSE IF st.token_file.exists
    THEN LET loaded == _load_token(st)
         IN  IF now < loaded.expires_at
             THEN [st |-> loaded, contacts |-> 0,
                   result |-> [kind |-> "return", value |-> loaded.access_token,
                               via |-> "file", token_data |-> Null]]
             ELSE IF loaded.refresh_token # Null
             THEN _refresh(loaded, answer, now, writable, "file_refresh")
             ELSE [st |-> loaded, contacts |-> 0,
                   result |-> [kind |-> "ValueError", value |-> Null,
                               via |-> "none", token_data |-> Null]]
    ELSE [st |-> st, contacts |-> 0,
          result |-> [kind |-> "ValueError", value |-> Null, via |-> "none",
                      token_data |-> Null]]

\* what the token endpoint can answer to a refresh (lines 128-130): a token
\* with or without a new refresh token and with or without expires_in, or an
\* error status, or no connection
TokenAnswers ==
    {[type |-> "ok", access_token |-> a, refresh_token |-> r, expires_in |-> e] :
        a \in {3, 4}, r \in {Absent, 5}, e \in {Absent, 2 * ExpiryMargin}}
    \cup {[type |-> t, access_token |-> Null, refresh_token |-> Null,
           expires_in |-> Null] : t \in {"HTTPError", "ConnectionError"}}

\* one call of get_access_token
GetAccessToken ==
    /\ pc = "auth"
    /\ \E answer \in TokenAnswers, writable \in BOOLEAN :
          LET call == get_access_token(
                          [access_token |-> access_token,
                           refresh_token |-> refresh_token,
                           expires_at |-> expires_at,
                           token_file |-> token_file],
                          answer, clock, writable)
          IN  /\ access_token' = call.st.access_token
              /\ refresh_token' = call.st.refresh_token
              /\ expires_at' = call.st.expires_at
              /\ token_file' = call.st.token_file
              /\ token_result' = call.result
              /\ contacts' = call.contacts
    /\ UNCHANGED <<receivables, payables, items, pc, reconcileVars, today,
                   projectionVars, classifierVars, agingVars, burnVars,
                   runwayVars, delinquency, monthly, history, batch,
                   requestVars, clock>>

\* time passes between two calls, up to an instant around the two expiries
Tick ==
    /\ pc = "auth"
    /\ \E t \in {0, ExpiryMargin - 1, ExpiryMargin,
                 DefaultExpiresIn - ExpiryMargin - 1,
                 DefaultExpiresIn - ExpiryMargin, MaxClock} :
          t <= MaxClock /\ t > clock /\ clock' = t
    /\ UNCHANGED <<receivables, payables, items, pc, reconcileVars, today,
                   projectionVars, classifierVars, agingVars, burnVars,
                   runwayVars, delinquency, monthly, history, batch,
                   requestVars, access_token, refresh_token, expires_at,
                   token_file, token_result, contacts>>

\* lines 50-52: no token in memory, the refresh token of the configuration
\* or none; the token file left by an earlier run, or none
AuthInit ==
    /\ pc = "auth"
    /\ clock = 0
    /\ access_token = Null
    /\ refresh_token \in {Null, 1}
    /\ expires_at = 0
    /\ token_file \in
          {[exists |-> FALSE, access_token |-> Null, refresh_token |-> Null,
            expires_at |-> 0]} \cup
          {[exists |-> TRUE, access_token |-> 2, refresh_token |-> r,
            expires_at |-> e] :
              r \in {Null, 2}, e \in {0, ExpiryMargin, DefaultExpiresIn - ExpiryMargin}}
    /\ token_result = [kind |-> "none", value |-> Null, via |-> "none",
                       token_data |-> Null]
    /\ contacts = 0
    /\ receivables = <<>> /\ payables = <<>> /\ items = <<>>
    /\ today = Null
    /\ monthly = Null /\ history = Null /\ batch = Null
    /\ ReconcileIdle /\ ProjectionIdle /\ ClassifierIdle /\ AgingIdle
    /\ BurnIdle /\ RunwayIdle /\ DelinquencyIdle /\ RequestIdle

AuthNext == GetAccessToken \/ Tick

AuthSpec == AuthInit /\ [][AuthNext]_vars

\* a token is held and not expired
Held == access_token # Null /\ clock < expires_at

\* the refresh token a refresh is made with: the one in memory or, without
\* one, the one of the token file
RefreshTokenUsed ==
    IF refresh_token # Null THEN refresh_token ELSE token_file.refresh_token

\* the call returned the token it saved from the answer of one refresh;
\* expires_at is the time of the save plus expires_in minus 60 seconds, and
\* an answer without refresh_token leaves the refresh token in place
RefreshedAndSaved ==
    /\ contacts' = 1
    /\ token_result'.kind = "return"
    /\ token_result'.value = access_token'
    /\ access_token' = token_result'.token_data.access_token
    /\ expires_at' = clock - ExpiryMargin
                     + (IF token_result'.token_data.expires_in # Absent
                        THEN token_result'.token_data.expires_in
                        ELSE DefaultExpiresIn)
    /\ refresh_token' = IF token_result'.token_data.refresh_token # Absent
                        THEN token_result'.token_data.refresh_token
                        ELSE RefreshTokenUsed

\* the one refresh failed: its error is raised and nothing is saved
RefreshFailed ==
    /\ contacts' = 1
    /\ token_result'.kind \in {"HTTPError", "ConnectionError"}
    /\ access_token' = (IF refresh_token # Null THEN access_token
                        ELSE token_file.access_token)
    /\ token_file' = token_file

ReturnsHeld ==
    /\ token_result'.kind = "return"
    /\ token_result'.value = access_token
    /\ contacts' = 0
    /\ UNCHANGED <<access_token, refresh_token, expires_at, token_file>>

\* the statement as written: the held token, or exactly one refresh, or
\* ValueError without any unexpired token or refresh token
HeldOrOneRefresh ==
    /\ Held => ReturnsHeld
    /\ ~Held =>
          \/ RefreshedAndSaved
          \/ RefreshFailed
          \/ /\ token_result'.kind = "ValueError"
             /\ contacts' = 0
             /\ refresh_token = Null
             /\ ~(token_file.exists /\ token_file.refresh_token # Null)
             /\ ~(token_file.exists /\ clock < token_file.expires_at)

\* C27 (as written): get_access_token returns the held token without a
\* request to the token endpoint when a token is held and the clock is
\* before expires_at; otherwise it makes exactly one refresh and returns the
\* newly saved token, or raises ValueError when there is no unexpired token
\* and no refresh token in memory or in the file.
C27_HeldOrOneRefresh == [][clock' = clock => HeldOrOneRefresh]_vars

\* C27 (amended): get_access_token returns the held token without a request
\* to the token endpoint when a token is held in memory and the clock is
\* before expires_at.  Otherwise, with a refresh token in memory it makes
\* exactly one refresh, whatever the token file holds.  Without one it loads
\* the token file: a token of the file that is not expired is returned
\* without any refresh; an expired one is refreshed once with the refresh
\* token of the file; without a file, or with an expired token and no
\* refresh token in it, ValueError is raised.  A refresh that succeeds
\* returns the newly saved token, with expires_at the time of the save plus
\* expires_in minus 60 seconds and the previous refresh token kept when the
\* answer has none; a refresh that fails raises its error.
C27_MemoryThenRefreshThenFile ==
    [][clock' = clock =>
        /\ Held => ReturnsHeld
        /\ (~Held /\ refresh_token # Null) =>
              RefreshedAndSaved \/ RefreshFailed
        /\ (~Held /\ refresh_token = Null /\ token_file.exists
               /\ clock < token_file.expires_at) =>
              /\ token_result'.kind = "return"
              /\ token_result'.value = token_file.access_token
              /\ access_token' = token_file.access_token
              /\ contacts' = 0
        /\ (~Held /\ refresh_token = Null /\ token_file.exists
               /\ ~(clock < token_file.expires_at)
               /\ token_file.refresh_token # Null) =>
              RefreshedAndSaved \/ RefreshFailed
        /\ (~Held /\ refresh_token = Null
               /\ (token_file.exists =>
                      /\ ~(clock < token_file.expires_at)
                      /\ token_file.refresh_token = Null)) =>
              /\ token_result'.kind = "ValueError"
              /\ contacts' = 0
    ]_vars

\* no token and no refresh token in memory, a token file whose token is
\* not expired: its token is returned and the token endpoint is left alone
C27_Witness ==
    /\ token_result.kind = "return"
    /\ token_result.via = "file"
    /\ contacts = 0
    /\ refresh_token = Null
    /\ access_token = token_result.value
    /\ clock < expires_at

====
